---------------------------- MODULE Spec2Model ----------------------------
(***************************************************************************)
(* Camera navigation core of the 3D solar system explorer (src/src/App.jsx) *)
(* as a state machine: the App's pilot flags and their handlers, the       *)
(* FreeRoamController's auto-roam frame callback and chooseAutoRoamTarget.  *)
(*                                                                         *)
(* Numbers.  Scene lengths are fixed-point integers, FP units per scene    *)
(* unit, vectors are triples <<x, y, z>>.  Clock readings are kept in      *)
(* milliseconds relative to the latest frame (performance.now() has an     *)
(* arbitrary origin and the code only compares and subtracts readings).    *)
(* Azimuths are octants of atan2(z, x); turn progress is in thousandths of *)
(* a revolution.  Math.random() draws are parameters of the operators.     *)
(*                                                                         *)
(* Steering.  The per-frame displacement of the auto-roam camera is        *)
(* move * safeStep, where move and autoSpeedRef are exponentially smoothed *)
(* reals (shipForwardRef, orbitSpin, orbitStrafe, autoSpeedRef).  The      *)
(* model keeps the cap on the travel step and draws the displacement from  *)
(* a finite set instead of integrating the smoothing.                      *)
(***************************************************************************)
EXTENDS Integers, Sequences, FiniteSets, TLC

NULL == "null"

\* ------------------------------------------------------------------------
\* Fixed-point arithmetic
\* ------------------------------------------------------------------------
FP == 5 * 10

Abs(a) == IF a < 0 THEN -a ELSE a

Max2(a, b) == IF a >= b THEN a ELSE b

Min2(a, b) == IF a <= b THEN a ELSE b

\* a / b rounded to the nearest integer (b > 0)
RDiv(a, b) == IF a >= 0 THEN (2 * a + b) \div (2 * b) ELSE -((2 * (-a) + b) \div (2 * b))

\* a * n / d rounded, without forming a * n for large a (n >= 0, d > 0)
MulDiv(a, n, d) == IF a >= 0 THEN (a \div d) * n + RDiv((a % d) * n, d) ELSE -(((-a) \div d) * n + RDiv(((-a) % d) * n, d))

\* Newton's iteration for the square root, from x above the root down
RECURSIVE ISqrtRec(_, _)
ISqrtRec(n, x) == IF (x + n \div x) \div 2 >= x THEN x ELSE ISqrtRec(n, (x + n \div x) \div 2)

\* floor of the square root, 0 <= n < 2^31
ISqrt(n) == IF n <= 0 THEN 0 ELSE ISqrtRec(n, IF n < 256 THEN 16 ELSE IF n < 65536 THEN 256 ELSE IF n < 16777216 THEN 4096 ELSE 46340)

\* ------------------------------------------------------------------------
\* THREE.Vector3
\* ------------------------------------------------------------------------
VZero == <<0, 0, 0>>

VAdd(a, b) == <<a[1] + b[1], a[2] + b[2], a[3] + b[3]>>

VSub(a, b) == <<a[1] - b[1], a[2] - b[2], a[3] - b[3]>>

\* v * n / d
VMulDiv(v, n, d) == <<MulDiv(v[1], n, d), MulDiv(v[2], n, d), MulDiv(v[3], n, d)>>

MaxAbs(v) == Max2(Abs(v[1]), Max2(Abs(v[2]), Abs(v[3])))

\* the divisor that brings every component of v under 2^14, so squares fit
Shrink(v) == (MaxAbs(v) \div 16384) + 1

\* v / k, k >= 1
VOver(v, k) == IF k = 1 THEN v ELSE <<RDiv(v[1], k), RDiv(v[2], k), RDiv(v[3], k)>>

VShrunk(v) == VOver(v, Shrink(v))

\* v rescaled for normalisation: short vectors are stretched, long ones shrunk
Rescaled(v) == IF MaxAbs(v) <= 128 THEN <<v[1] * 100, v[2] * 100, v[3] * 100>> ELSE VShrunk(v)

Sq(v) == v[1] * v[1] + v[2] * v[2] + v[3] * v[3]

\* Vector3.length(), truncated to a whole fixed-point unit
VLenBy(v, k) == k * ISqrt(Sq(VOver(v, k)))

VLen(v) == VLenBy(v, Shrink(v))

\* Vector3.distanceTo(), truncated likewise
Dist(a, b) == VLen(VSub(a, b))

\* a.distanceTo(b) < r100 / 100 scene units, for r100 up to 400, without the root
Near(a, b, r100) == MaxAbs(VSub(a, b)) * 100 < r100 * FP /\ Sq(VSub(a, b)) * 10000 < (r100 * FP) * (r100 * FP)

\* Vector3.lengthSq() < 1e-6: shorter than a thousandth of a scene unit
Tiny(v) == v = VZero

\* Vector3.normalize().multiplyScalar(len), v not Tiny
Scaled(w, len, n) == <<MulDiv(len, w[1], n), MulDiv(len, w[2], n), MulDiv(len, w[3], n)>>

SetLengthOf(w, len) == Scaled(w, len, ISqrt(Sq(w)))

SetLength(v, len) == SetLengthOf(Rescaled(v), len)

\* a + normalize(d) * len
AlongFrom(a, d, len) == VAdd(a, SetLength(d, len))

\* Vector3.crossVectors(a, b)
Cross(a, b) == <<a[2] * b[3] - a[3] * b[2], a[3] * b[1] - a[1] * b[3], a[1] * b[2] - a[2] * b[1]>>

\* one coordinate of Vector3.lerp: the step is rounded away from zero, so that a
\* repeated lerp reaches its goal
LerpTo(x, goal, pct) == IF goal >= x THEN x + ((goal - x) \div 100) * pct + ((((goal - x) % 100) * pct + 99) \div 100) ELSE x - (((x - goal) \div 100) * pct + ((((x - goal) % 100) * pct + 99) \div 100))

\* Vector3.lerp(goal, pct / 100)
Lerp(v, goal, pct) == <<LerpTo(v[1], goal[1], pct), LerpTo(v[2], goal[2], pct), LerpTo(v[3], goal[3], pct)>>

\* rotation of an offset by q quarter turns about the vertical axis
RECURSIVE RotY(_, _)
RotY(v, q) == IF q = 0 THEN v ELSE RotY(<<-v[3], v[2], v[1]>>, q - 1)

\* Math.atan2(v.z, v.x) as an octant 0..7 (atan2(0, 0) = 0)
Azimuth(v) == LET x == v[1] z == v[3] IN
    IF z = 0 THEN (IF x >= 0 THEN 0 ELSE 4)
    ELSE IF z > 0 THEN (IF x > 0 THEN (IF z < x THEN 0 ELSE 1) ELSE (IF -x < z THEN 2 ELSE 3))
    ELSE (IF x < 0 THEN (IF -z < -x THEN 4 ELSE 5) ELSE (IF x < -z THEN 6 ELSE 7))

\* ------------------------------------------------------------------------
\* Scene data (src/src/data.js) and the body registry (Scene.bodyRefs)
\* ------------------------------------------------------------------------
\* world positions and radii are in fixed-point units
SunRadius(sci) == IF sci THEN (98 * 4 * FP) \div 10 ELSE (98 * FP) \div 10

EarthRadius == (19 * FP) \div 10

MoonRadius == FP \div 2

\* scaleDistance(au) = (28 + au * 36) * 1.82, au in tenths; times
\* SCIENTIFIC_DISTANCE_SCALE in scientific mode
ScaleDistance(auTenths, sci) == (((280 + auTenths * 36) * 182 * FP) \div 1000) * (IF sci THEN 10 ELSE 1)

EarthDistance(sci) == ScaleDistance(10, sci)

MoonDistance(sci) == (45 * FP * (IF sci THEN 10 ELSE 1)) \div 10

\* Object.keys(bodyRefs.current) once the scene is mounted, in mount order
BodyKeys == <<"Sun", "Earth", "Earth/Moon">>

\* key.includes('/')
IsMoonKey(key) == key = "Earth/Moon"

\* key.split('/')[0]
ParentOf(key) == IF key = "Earth/Moon" THEN "Earth" ELSE key

BodyRadius(key, sci) == IF key = "Sun" THEN SunRadius(sci) ELSE IF key = "Earth" THEN EarthRadius ELSE MoonRadius

\* the places of Earth on its circular orbit the model visits, in the order of the orbit
EarthOrbit(sci) == <<(<<EarthDistance(sci), 0, 0>>), (<<0, 0, EarthDistance(sci)>>)>>

\* mesh.getWorldPosition(): the Sun at the origin, the Moon beside Earth
BodyPos(key, earth, sci) == IF key = "Sun" THEN VZero ELSE IF key = "Earth" THEN earth ELSE VAdd(earth, <<0, 0, MoonDistance(sci)>>)

\* orbitalBands / scientificOrbitalBands: scaleDistance(au) * FP
BandInner(type, sci) == ScaleDistance(IF type = "asteroid" THEN 22 ELSE 300, sci)

BandOuter(type, sci) == ScaleDistance(IF type = "asteroid" THEN 32 ELSE 500, sci)

OortRadius(sci) == IF sci THEN 3300000 * FP ELSE 3400 * FP

OortSpread(sci) == IF sci THEN 550000 * FP ELSE 500 * FP

MAP_ENTER_SURFACE_BUFFER == (22 * FP) \div 100

MAP_ENTER_RELEASE_SURFACE_BUFFER == (90 * FP) \div 100

\* ------------------------------------------------------------------------
\* Moon: orbit plane and sense
\* ------------------------------------------------------------------------
\* A JavaScript number: a finite value or NaN or Infinity.  Angles are in
\* thousandths of a radian or of a degree, orbit periods in 1e-5 years.
Finite(v) == [kind |-> "finite", v |-> v]

NaN == [kind |-> "NaN", v |-> 0]

Infinity == [kind |-> "Infinity", v |-> 0]

\* Number.isFinite
IsFinite(n) == n.kind = "finite"

\* THREE.MathUtils.radToDeg and degToRad, pi taken as 355/113
RadToDeg(rad) == (rad * 4068) \div 71

DegToRad(deg) == (deg * 71) \div 4068

\* rawInclinationDeg of the prop orbitInclinationRad
RawInclinationDeg(orbitInclinationRad) ==
    LET deg == RadToDeg(orbitInclinationRad.v) % 360000
    IN  IF ~IsFinite(orbitInclinationRad) THEN 0 ELSE IF deg > 180000 THEN 360000 - deg ELSE deg

\* a tilt that is the folded inclination itself
PlanarDegUnmirrored(rawInclinationDeg) == rawInclinationDeg

\* planarDeg, the tilt the orbit plane is drawn with
PlanarDeg(rawInclinationDeg) == IF rawInclinationDeg > 90000 THEN 180000 - rawInclinationDeg ELSE rawInclinationDeg

EffectiveInclinationRad(rawInclinationDeg) == DegToRad(PlanarDeg(rawInclinationDeg))

\* a flag that reads the sign of the period alone
RetrogradeByPeriod(orbitPeriod, rawInclinationDeg) == orbitPeriod < 0

\* the retrograde flag
Retrograde(orbitPeriod, rawInclinationDeg) == orbitPeriod < 0 \/ rawInclinationDeg > 90000

\* MOON_ORBIT_BASE in thousandths, useState(MIN_SPEED) in tenths
MOON_ORBIT_BASE == 12

speedScale == 2

\* orbit of Moon.useFrame, in millionths of a radian per second
MoonOrbit(orbitPeriod, freeze) == IF freeze THEN 0 ELSE (MOON_ORBIT_BASE * speedScale * 10000000) \div Max2(Abs(orbitPeriod), 2000)

\* Earth's Moon as the scene mounts it: getStartupMoonOrbitAngles hands the
\* configured 5.145 degrees on, getScientificMoonOrbitState 0 for Earth/Moon
MountedMoon(sci) == [key |-> "Earth/Moon", orbitPeriod |-> 7480, orbitInclinationRad |-> Finite(IF sci THEN 0 ELSE DegToRad(5145)), rotationY |-> 0, frames |-> 0]

\* ------------------------------------------------------------------------
\* The orbital pose solver: getStartupOrbitAngles, getStartupMoonOrbitAngles,
\* getScientificMoonOrbitState
\* ------------------------------------------------------------------------
\* Angles are in thousandths of a turn, days in thousandths of a day.
\* seed.charCodeAt(i) of the characters of the model's seeds
CharCode ==
    ("E" :> 69) @@ ("a" :> 97) @@ ("r" :> 114) @@ ("t" :> 116) @@ ("h" :> 104) @@ ("/" :> 47) @@ ("M" :> 77) @@ ("o" :> 111) @@ ("n" :> 110)
    @@ ("J" :> 74) @@ ("u" :> 117) @@ ("p" :> 112) @@ ("i" :> 105) @@ ("e" :> 101) @@ ("I" :> 73) @@ (":" :> 58) @@ ("s" :> 115) @@ ("d" :> 100)
    @@ ("Omega" :> 937) @@ ("uFFFF" :> 65535)

\* the characters of a moon key
KeyChars(key) == IF key = "Earth/Moon" THEN <<"E", "a", "r", "t", "h", "/", "M", "o", "o", "n">> ELSE <<"J", "u", "p", "i", "t", "e", "r", "/", "I", "o">>

\* a ^ b
RECURSIVE Xor(_, _)
Xor(a, b) == IF a = 0 THEN b ELSE IF b = 0 THEN a ELSE ((a + b) % 2) + 2 * Xor(a \div 2, b \div 2)

\* a step that multiplies before it folds the character in (FNV-1)
HashStepMultiplyFirst(hash, code) ==
    <<(hash[1] * 403 + (hash[2] * 403) \div 65536 + (hash[2] % 256) * 256) % 65536, Xor((hash[2] * 403) % 65536, code)>>

\* hash ^= code; hash = Math.imul(hash, 16777619), the 32 bits of hash kept
\* as <<upper 16, lower 16>>; 16777619 = 2^24 + 403
HashStep(hash, code) ==
    LET lo == Xor(hash[2], code)
    IN  <<(hash[1] * 403 + (lo * 403) \div 65536 + (lo % 256) * 256) % 65536, (lo * 403) % 65536>>

RECURSIVE HashOf(_, _)
HashOf(hash, chars) == IF chars = <<>> THEN hash ELSE HashOf(HashStep(hash, CharCode[Head(chars)]), Tail(chars))

\* (hash >>> 0) % 360 of hashPhase(seed), hash starting from 2166136261 = 0x811C9DC5
HashIndex(chars) == LET hash == HashOf(<<33052, 40389>>, chars) IN ((hash[1] % 360) * 16 + hash[2]) % 360

\* hashPhase(seed) = ((hash >>> 0) % 360) / 360, in thousandths
hashPhase(chars) == (HashIndex(chars) * 1000) \div 360

\* Math.atan2(z, x) of two JavaScript numbers
Atan2(z, x) ==
    LET cz == IF z.kind = "Infinity" THEN 1 ELSE IF x.kind = "Infinity" THEN 0 ELSE z.v
        cx == IF x.kind = "Infinity" THEN 1 ELSE IF z.kind = "Infinity" THEN 0 ELSE x.v
        turn == Azimuth(<<cx, 0, cz>>) * 125
    IN  IF z.kind = "NaN" \/ x.kind = "NaN" THEN NaN ELSE Finite(IF turn > 500 THEN turn - 1000 ELSE turn)

\* planets and moons of src/src/data.js the model solves for
SolverPlanets == <<"Earth", "Jupiter">>

SolverMoons == <<[key |-> "Earth/Moon", name |-> "Moon", orbitPeriod |-> 7480, orbitalInclinationDeg |-> 5145, ascendingNodeDeg |-> 125080],
                 [key |-> "Jupiter/Io", name |-> "Io", orbitPeriod |-> 484, orbitalInclinationDeg |-> 40, ascendingNodeDeg |-> 43980]>>

PLANET_TO_BODY == {"Mercury", "Venus", "Earth", "Mars", "Jupiter", "Saturn", "Uranus", "Neptune", "Pluto"}

\* entries of horizonsSnapshot.bodies: none, one whose vector is null, one with a vector
NoEntry == [entry |-> FALSE, vector |-> FALSE, x |-> Finite(0), z |-> Finite(0)]

NullVector == [entry |-> TRUE, vector |-> FALSE, x |-> Finite(0), z |-> Finite(0)]

Vector(x, z) == [entry |-> TRUE, vector |-> TRUE, x |-> x, z |-> z]

\* horizonBodies?.[name]?.vector is truthy
HasVector(snapshot, name) == snapshot.given /\ snapshot.bodies[name].entry /\ snapshot.bodies[name].vector

\* what a call into astronomy-engine does: it throws or returns a vector
Returns(a, b) == [throws |-> FALSE, a |-> a, b |-> b]

Throws == [throws |-> TRUE, a |-> Finite(0), b |-> Finite(0)]

\* getStartupOrbitAngles: rnd[p] is the Math.random() * Math.PI * 2 that
\* ends up as the angle of planet p where one does
getStartupOrbitAngles(planets, snapshot, astro, rnd) ==
    LET names == {planets[i] : i \in 1..Len(planets)}
        helio(p) == astro.helio[p]
        caught == \E p \in names : ~HasVector(snapshot, p) /\ p \in PLANET_TO_BODY /\ helio(p).throws
        solved(p) == IF HasVector(snapshot, p) THEN Atan2(snapshot.bodies[p].z, snapshot.bodies[p].x)
                     ELSE IF p \notin PLANET_TO_BODY THEN Finite(rnd[p])
                     ELSE IF ~IsFinite(helio(p).a) \/ ~IsFinite(helio(p).b) THEN Finite(rnd[p])
                     ELSE Atan2(helio(p).b, helio(p).a)
    IN  [threw |-> FALSE, state |-> [p \in names |-> IF caught THEN Finite(rnd[p]) ELSE solved(p)]]

\* orbitDays = Math.max(Math.abs(moon.orbitPeriod), 0.001) * 365.25
OrbitDays(orbitPeriod) == (Max2(Abs(orbitPeriod), 100) * 36525) \div 10000

\* ((days / orbitDays) + phaseOffset) % 1
Phase(days, orbitPeriod, phaseOffset) == (((days % OrbitDays(orbitPeriod)) * 1000) \div OrbitDays(orbitPeriod) + phaseOffset) % 1000

\* getStartupMoonOrbitAngles (fun mode)
getStartupMoonOrbitAngles(moons, days) ==
    [threw |-> FALSE,
     state |-> [key \in {moons[i].key : i \in 1..Len(moons)} |->
                   LET moon == CHOOSE m \in {moons[i] : i \in 1..Len(moons)} : m.key = key
                   IN  [angle |-> Finite(Phase(days, moon.orbitPeriod, hashPhase(KeyChars(key) \o <<":", "p", "h", "a", "s", "e">>))),
                        inclinationRad |-> DegToRad(moon.orbitalInclinationDeg),
                        ascendingNodeRad |-> DegToRad(moon.ascendingNodeDeg)]]]

\* getScientificMoonOrbitState
getScientificMoonOrbitState(moons, snapshot, astro, days) ==
    LET hasHorizonsData == snapshot.given /\ \E name \in DOMAIN snapshot.bodies : snapshot.bodies[name].entry
        local(key) == IF key = "Earth/Moon" THEN astro.geoMoon ELSE astro.jupiterMoons
        angle(moon) ==
            IF HasVector(snapshot, moon.name) THEN Atan2(snapshot.bodies[moon.name].z, snapshot.bodies[moon.name].x)
            ELSE IF ~hasHorizonsData THEN Atan2(local(moon.key).b, local(moon.key).a)
            ELSE Finite(Phase(days, moon.orbitPeriod, hashPhase(KeyChars(moon.key))))
    IN  [threw |-> ~hasHorizonsData /\ (astro.geoMoon.throws \/ astro.jupiterMoons.throws),
         state |-> [key \in {moons[i].key : i \in 1..Len(moons)} |->
                       LET moon == CHOOSE m \in {moons[i] : i \in 1..Len(moons)} : m.key = key
                       IN  [angle |-> angle(moon),
                            inclinationRad |-> IF key = "Earth/Moon" THEN 0 ELSE DegToRad(moon.orbitalInclinationDeg),
                            ascendingNodeRad |-> IF key = "Earth/Moon" THEN 0 ELSE DegToRad(moon.ascendingNodeDeg)]]]

\* the App's mount: the solver ran without a snapshot and the model keeps no record of it
NoPoseCall == [calls |-> <<>>]

\* hashPhase is about to be called with seed; hashes are the values
\* (hash >>> 0) % 360 of its calls so far
HashCalls(seed) == [seed |-> seed, hashes |-> <<>>, calls |-> <<>>]

\* ------------------------------------------------------------------------
\* The ephemeris handler
\* ------------------------------------------------------------------------
\* TARGETS.length
TargetCount == 31

CACHE_TTL_MS == 10 * 60 * 1000

\* no response yet
NoResponse == [method |-> NULL, at |-> 0, status |-> 0, fromCache |-> FALSE, upstream |-> 0, attempts |-> 0, bodies |-> 0]

\* the module as loaded: cachedResponse = null (stored = FALSE), cachedAtMs = 0.  now is
\* Date.now(), requests the number of requests answered, storedAtMs the time
\* of the latest assignment to cachedResponse.
ModuleLoaded == [now |-> 1700000000, cachedResponse |-> [stored |-> FALSE, bodies |-> 0], cachedAtMs |-> 0, storedAtMs |-> 0, requests |-> 0, response |-> NoResponse]

\* fetchTargetSnapshot against an upstream whose first answer that is ok and
\* parses comes after so many failures: whether a snapshot is returned and
\* the number of calls of fetch
fetchTargetSnapshot(failures) == [fulfilled |-> failures < 3, attempts |-> Min2(failures + 1, 3)]

\* a test that takes any cached snapshot
CacheFreshAnyAge(e, now) == e.cachedResponse.stored

\* cachedResponse && now - cachedAtMs < CACHE_TTL_MS
CacheFresh(e, now) == e.cachedResponse.stored /\ now - e.cachedAtMs < CACHE_TTL_MS

\* the sum of the attempts, their maximum and the number of fulfilled entries of settled
Settled(plan) ==
    [upstream |-> Len(SelectSeq(plan, LAMBDA f : fetchTargetSnapshot(f).attempts >= 1))
                  + Len(SelectSeq(plan, LAMBDA f : fetchTargetSnapshot(f).attempts >= 2))
                  + Len(SelectSeq(plan, LAMBDA f : fetchTargetSnapshot(f).attempts >= 3))
                  + Len(SelectSeq(plan, LAMBDA f : fetchTargetSnapshot(f).attempts >= 4))
                  + Len(SelectSeq(plan, LAMBDA f : fetchTargetSnapshot(f).attempts >= 5)),
     attempts |-> IF \E i \in 1..Len(plan) : fetchTargetSnapshot(plan[i]).attempts >= 5 THEN 5
                  ELSE IF \E i \in 1..Len(plan) : fetchTargetSnapshot(plan[i]).attempts >= 4 THEN 4
                  ELSE IF \E i \in 1..Len(plan) : fetchTargetSnapshot(plan[i]).attempts >= 3 THEN 3
                  ELSE IF \E i \in 1..Len(plan) : fetchTargetSnapshot(plan[i]).attempts >= 2 THEN 2 ELSE 1,
     bodies |-> Len(SelectSeq(plan, LAMBDA f : fetchTargetSnapshot(f).fulfilled))]

\* handler(req, res) at the time now; plan[i] is the number of failures of
\* the upstream for TARGETS[i] and the refresh, if there is one, takes
\* duration ms
Handled(e, method, now, plan, duration) ==
    IF method # "GET"
    THEN [e EXCEPT !.now = now, !.requests = @ + 1,
                   !.response = [method |-> method, at |-> now, status |-> 405, fromCache |-> FALSE, upstream |-> 0, attempts |-> 0, bodies |-> 0]]
    ELSE IF CacheFresh(e, now)
    THEN [e EXCEPT !.now = now, !.requests = @ + 1,
                   !.response = [method |-> method, at |-> now, status |-> 200, fromCache |-> TRUE, upstream |-> 0, attempts |-> 0, bodies |-> e.cachedResponse.bodies]]
    ELSE CHOOSE r \in {IF settled.bodies < 10
                       THEN [e EXCEPT !.now = now + duration, !.requests = @ + 1,
                                      !.response = [method |-> method, at |-> now, status |-> 502, fromCache |-> FALSE,
                                                    upstream |-> settled.upstream, attempts |-> settled.attempts, bodies |-> 0]]
                       ELSE [e EXCEPT !.now = now + duration, !.requests = @ + 1,
                                      !.cachedResponse = [stored |-> TRUE, bodies |-> settled.bodies], !.cachedAtMs = now, !.storedAtMs = now + duration,
                                      !.response = [method |-> method, at |-> now, status |-> 200, fromCache |-> FALSE,
                                                    upstream |-> settled.upstream, attempts |-> settled.attempts, bodies |-> settled.bodies]]
                       : settled \in {Settled(plan)}} : TRUE

\* ------------------------------------------------------------------------
\* chooseAutoRoamTarget (FreeRoamController)
\* ------------------------------------------------------------------------
\* randomUnitVector(): the unit directions the model draws
UnitDirs == {<<1, 0, 0>>, <<-1, 0, 0>>, <<0, 0, -1>>}

VTimes(dir, len) == <<dir[1] * len, dir[2] * len, dir[3] * len>>

TypeEntry(type, weight) == [type |-> type, weight |-> weight]

\* the weights of a selection that prefers nothing
WeightedTypesUnpreferred(preferInner, hasMoons, hasBelts, hasOort) ==
    <<TypeEntry("sun", 12), TypeEntry("planet", 44), TypeEntry("moon", IF hasMoons THEN 32 ELSE 0)>>
    \o (IF hasBelts THEN <<TypeEntry("asteroid", 7), TypeEntry("kuiper", 4)>> ELSE <<>>)
    \o (IF hasOort THEN <<TypeEntry("oort", 1)>> ELSE <<>>)

\* weights in hundredths
WeightedTypes(preferInner, hasMoons, hasBelts, hasOort) ==
    <<TypeEntry("sun", IF preferInner THEN 15 ELSE 12),
      TypeEntry("planet", IF preferInner THEN 52 ELSE 44),
      TypeEntry("moon", IF hasMoons THEN (IF preferInner THEN 33 ELSE 32) ELSE 0)>>
    \o (IF hasBelts THEN <<TypeEntry("asteroid", IF preferInner THEN 2 ELSE 7), TypeEntry("kuiper", IF preferInner THEN 0 ELSE 4)>> ELSE <<>>)
    \o (IF hasOort THEN <<TypeEntry("oort", IF preferInner THEN 0 ELSE 1)>> ELSE <<>>)

\* weightedTypes.filter(...): keepPrev is the draw Math.random() < 0.35
FilteredTypes(entries, previousType, keepPrev) == SelectSeq(entries, LAMBDA e : e.weight > 0 /\ (e.type # previousType \/ keepPrev))

RECURSIVE TotalWeight(_)
TotalWeight(entries) == IF entries = <<>> THEN 0 ELSE Head(entries).weight + TotalWeight(Tail(entries))

\* the loop "pick -= entry.weight; if (pick <= 0) ..." with type 'sun' as default
RECURSIVE PickType(_, _)
PickType(entries, pick) == IF entries = <<>> THEN "sun" ELSE IF pick - Head(entries).weight * 1000 <= 0 THEN Head(entries).type ELSE PickType(Tail(entries), pick - Head(entries).weight * 1000)

\* keys[Math.floor(Math.random() * keys.length)], NULL for keys[NaN]
KeyAt(keys, pct) == IF keys = <<>> THEN NULL ELSE keys[((pct * Len(keys)) \div 100) + 1]

\* surfaceBuffer by target type
SurfaceBuffer(type, focusRadius, sci) ==
    IF focusRadius <= 0 THEN (IF sci THEN 180 * FP ELSE 8 * FP)
    ELSE IF type = "moon" THEN Max2(MulDiv(focusRadius, IF sci THEN 135 ELSE 180, 100), IF sci THEN 16 * FP ELSE (22 * FP) \div 10)
    ELSE IF type = "planet" THEN Max2(MulDiv(focusRadius, IF sci THEN 160 ELSE 210, 100), IF sci THEN 60 * FP ELSE (42 * FP) \div 10)
    ELSE IF type = "sun" THEN Max2(MulDiv(focusRadius, IF sci THEN 145 ELSE 180, 100), IF sci THEN 120 * FP ELSE 8 * FP)
    ELSE IF type = "asteroid" THEN (IF sci THEN 250 * FP ELSE 20 * FP)
    ELSE IF type = "kuiper" THEN (IF sci THEN 950 * FP ELSE 60 * FP)
    ELSE (IF sci THEN 9500 * FP ELSE 80 * FP)

\* arrivalDistance of the returned target
ArrivalDistance(type, focusKey, focusRadius, sci) ==
    IF focusKey = "Earth" THEN (42 * FP) \div 100
    ELSE IF type = "moon" THEN Max2(MulDiv(focusRadius, IF sci THEN 102 ELSE 120, 100), IF sci THEN 4 * FP ELSE (15 * FP) \div 10)
    ELSE Max2(MulDiv(focusRadius, 124, 100), IF sci THEN 45 * FP ELSE 6 * FP)


\* the return value null; candidate is not part of the returned object: it
\* keeps the waypoint as it was before the Earth check
NoTarget == [ok |-> FALSE, focus |-> VZero, waypoint |-> VZero, type |-> NULL, focusKey |-> NULL, arrivalDistance |-> 0, candidate |-> VZero]

InKeys(keys, key) == \E i \in 1..Len(keys) : keys[i] = key

\* the focus point and radius of the chosen target; ok = FALSE where the
\* code returns null.  moonHit is the moon picked by the preferred-moon branch.
ChooseFocus(type, moonHit, keys, earth, sci, rnd) ==
    LET moonKeys == SelectSeq(keys, IsMoonKey)
        planetKeys == SelectSeq(keys, LAMBDA k : k # "Sun" /\ ~IsMoonKey(k))
        key == IF type = "moon" THEN KeyAt(moonKeys, rnd.keyPct) ELSE IF type = "planet" THEN KeyAt(planetKeys, rnd.keyPct) ELSE "Sun"
        bandRadius == BandInner(type, sci) + MulDiv(BandOuter(type, sci) - BandInner(type, sci), rnd.bandT, 100)
        bandY == MulDiv((IF type = "asteroid" THEN 25 ELSE 80) * FP, rnd.bandY - 50, 100)
        oortR == OortRadius(sci) + MulDiv(OortSpread(sci), rnd.oortR - 50, 100)
    IN  IF moonHit # NULL THEN [ok |-> TRUE, type |-> "moon", focusKey |-> moonHit, focus |-> BodyPos(moonHit, earth, sci), focusRadius |-> BodyRadius(moonHit, sci)]
        ELSE IF type \in {"moon", "planet", "sun"} THEN
            (IF key # NULL /\ InKeys(keys, key)
             THEN [ok |-> TRUE, type |-> type, focusKey |-> key, focus |-> BodyPos(key, earth, sci), focusRadius |-> BodyRadius(key, sci)]
             ELSE [ok |-> FALSE, type |-> type, focusKey |-> NULL, focus |-> VZero, focusRadius |-> 1])
        ELSE IF type \in {"asteroid", "kuiper"} THEN
            [ok |-> TRUE, type |-> type, focusKey |-> NULL, focus |-> VAdd(RotY(<<bandRadius, 0, 0>>, rnd.bandTheta), <<0, bandY, 0>>), focusRadius |-> (IF type = "asteroid" THEN 35 ELSE 130) * FP]
        ELSE [ok |-> TRUE, type |-> type, focusKey |-> NULL, focus |-> VTimes(rnd.oortDir, oortR), focusRadius |-> MulDiv(OortRadius(sci), 4, 100)]

\* the waypoint before the Earth check: focus + dir * stand-off
CandidateWaypoint(f, sci, rnd) ==
    LET surfaceBuffer == SurfaceBuffer(f.type, f.focusRadius, sci)
        earthNearSurfaceBuffer == MAP_ENTER_SURFACE_BUFFER + (36 * FP) \div 100
        standOff == IF f.focusKey = "Earth"
                    THEN f.focusRadius + earthNearSurfaceBuffer + MulDiv((12 * FP) \div 100, rnd.extra, 100)
                    ELSE f.focusRadius + surfaceBuffer + MulDiv(MulDiv(surfaceBuffer, 85, 100), rnd.extra, 100)
    IN  VAdd(f.focus, VTimes(rnd.dir, standOff))

\* minEarthDistance of chooseAutoRoamTarget
WaypointMinEarthDistance(earthRadius) == earthRadius + MAP_ENTER_SURFACE_BUFFER + (40 * FP) \div 100

\* The Earth check on the waypoint.  "away" is waypointPos itself
\* (Vector3.sub returns this), so waypointPos.copy(earthPos) overwrites the
\* normalized direction and addScaledVector(away, s) adds earthPos * s:
\* the result is earthPos * (1 + s), s the scalar minEarthDistance + 0.06.
EarthCheckedWaypoint(waypoint, earthP, cameraPosition, earthRadius) ==
    LET minEarthDistance == WaypointMinEarthDistance(earthRadius)
    IN  IF Dist(waypoint, earthP) < minEarthDistance
        THEN VAdd(earthP, VMulDiv(earthP, minEarthDistance + (6 * FP) \div 100, FP))
        ELSE waypoint

\* the moon taken by the preferred-moon branch, NULL where the branch is not taken
PreferredMoon(options, keys, rnd) ==
    LET preferredMoonKeys == IF options.preferredMoonParent # NULL
                             THEN SelectSeq(keys, LAMBDA k : IsMoonKey(k) /\ ParentOf(k) = options.preferredMoonParent)
                             ELSE <<>>
    IN  IF preferredMoonKeys # <<>> /\ rnd.takeMoon THEN KeyAt(preferredMoonKeys, rnd.moonPct) ELSE NULL

\* the type the weighted draw picks
PickedType(options, keys, rnd) ==
    LET filteredTypes == FilteredTypes(WeightedTypes(options.preferInner, SelectSeq(keys, IsMoonKey) # <<>>, TRUE, TRUE), options.previousType, rnd.keepPrev)
        totalWeight == TotalWeight(filteredTypes)
    IN  PickType(filteredTypes, rnd.pick * (IF totalWeight = 0 THEN 1 ELSE totalWeight))

\* waypointPos on return
Waypoint(f, cameraPosition, keys, earth, sci, rnd) ==
    IF InKeys(keys, "Earth")
    THEN EarthCheckedWaypoint(CandidateWaypoint(f, sci, rnd), BodyPos("Earth", earth, sci), cameraPosition, BodyRadius("Earth", sci))
    ELSE CandidateWaypoint(f, sci, rnd)

\* the returned record for the focus f
TargetOf(f, cameraPosition, keys, earth, sci, rnd) ==
    IF ~f.ok THEN NoTarget
    ELSE [ok |-> TRUE, focus |-> f.focus, waypoint |-> Waypoint(f, cameraPosition, keys, earth, sci, rnd), type |-> f.type, focusKey |-> f.focusKey,
          arrivalDistance |-> ArrivalDistance(f.type, f.focusKey, f.focusRadius, sci), candidate |-> CandidateWaypoint(f, sci, rnd)]

chooseAutoRoamTarget(cameraPosition, options, keys, earth, sci, rnd) ==
    TargetOf(ChooseFocus(PickedType(options, keys, rnd), PreferredMoon(options, keys, rnd), keys, earth, sci, rnd), cameraPosition, keys, earth, sci, rnd)

\* ------------------------------------------------------------------------
\* State
\* ------------------------------------------------------------------------
VARIABLES
    experienceMode,       \* App: 'fun' | 'scientific'
    bodyRefs,             \* Scene: the keys of bodyRefs.current, in the order the meshes registered
    ephemeris,            \* the ephemeris handler's module: its clock, cachedResponse, cachedAtMs and its last response
    selectedName,         \* App: selected planet or Sun, NULL for none
    selectedMoonKey,      \* App: selected moon key, NULL for none
    cameraMode,           \* App: 'focus' | 'home' | NULL
    followSelected,       \* App
    freeRoamEnabled,      \* App: Free Explore (manual fly)
    autoRoamEnabled,      \* App: Free Roam Mode (auto-roam)
    autoRoamStatus,       \* App: last status delivered by the controller
    viewMode,             \* App: 'space' | 'map'
    mapTransitionLock,    \* App.mapTransitionLockRef
    mapLockTimer,         \* App: the 850 ms lock release timer is pending
    focusReleaseBlocked,  \* App: Date.now() < focusReleaseBlockUntilMsRef
    earthPos,             \* world position of the Earth mesh
    cameraPos,            \* state.camera.position
    controlsTarget,       \* OrbitControls.target
    settledRef,           \* CameraPilot.settledRef
    releasedRef,          \* CameraPilot.releasedRef
    autoState,            \* FreeRoamController.autoStateRef
    focusPos,             \* FreeRoamController.focusPos
    waypointPos,          \* FreeRoamController.waypointPos
    autoStatusEmit,       \* FreeRoamController.autoStatusEmitRef
    pressed,              \* FreeRoamController.pressedRef
    scripted,             \* FreeRoamController.scriptedRef, and the applyScriptedInput call that wrote it
    lastDelta,            \* ms between the two latest auto-roam ticks if the latest step was one, else 0
    selections,           \* destinations chosen since the auto-roam pilot was enabled
    sessions,             \* times the auto-roam pilot was enabled since the canvas was mounted
    gestures,             \* user gestures handled since the canvas was mounted
    callArgs,             \* options argument of the latest chooseAutoRoamTarget call since the auto-roam pilot was enabled
    callResult,           \* its return value
    moonPivot,            \* Moon: the props, pivot.current.rotation.y and the frames run since the mount
    poseCall,             \* the orbital pose solver: its inputs and what its calls returned
    statusLog             \* ms since each onAutoRoamStatus call of the last second, the latest first

vars == <<experienceMode, bodyRefs, ephemeris, selectedName, selectedMoonKey, cameraMode, followSelected, freeRoamEnabled, autoRoamEnabled,
          autoRoamStatus, viewMode, mapTransitionLock, mapLockTimer, focusReleaseBlocked, earthPos, cameraPos,
          controlsTarget, settledRef, releasedRef, autoState, focusPos, waypointPos, autoStatusEmit, pressed, scripted,
          lastDelta, selections, sessions, gestures, callArgs, callResult, moonPivot, poseCall, statusLog>>

appVars == <<selectedName, selectedMoonKey, cameraMode, followSelected, freeRoamEnabled, autoRoamEnabled,
             autoRoamStatus, viewMode, mapTransitionLock, mapLockTimer, settledRef, releasedRef, autoState, pressed, scripted, selections, sessions>>

callVars == <<callArgs, callResult>>

\* each written by one component only: the Moon, the pose solver, the status callback
ownVars == <<moonPivot, poseCall, statusLog>>

scientificMode == experienceMode = "scientific"

\* selectedTargetKey = selectedMoonKey || selectedName
TargetKey(name, moon) == IF moon # NULL THEN moon ELSE name

selectedTargetKey == TargetKey(selectedName, selectedMoonKey)

\* orbitPrevAzimuth: null
NoAzimuth == 0 - 1

\* autoStateRef as constructed
InitialAutoState == [hasTarget |-> FALSE, mode |-> "travel", holdUntilMs |-> 0, travelStartedMs |-> 0, targetType |-> "sun",
                     focusKey |-> "Sun", arrivalDistance |-> 20 * FP, orbitTurnsTarget |-> 1000, orbitTurnsProgress |-> 0,
                     orbitPrevAzimuth |-> NoAzimuth, forceInnerNext |-> FALSE]

\* an effect that leaves autoStateRef as the session left it
ResetAutoStateKept(s) == s

\* the four assignments of the enable/disable effect of FreeRoamController
ResetAutoState(s) == [s EXCEPT !.hasTarget = FALSE, !.orbitTurnsProgress = 0, !.orbitTurnsTarget = 1000, !.orbitPrevAzimuth = NoAzimuth]

\* autoRoamStatus: null
NoStatus == [mode |-> "none", targetType |-> NULL, focusKey |-> NULL, distance |-> 0, holdRemainingMs |-> 0, orbitTurnsProgress |-> 0, orbitTurnsTarget |-> 0]

\* the oldest clock reading the model tells apart, ms before the latest frame
ClockHorizon == 250000

\* autoStatusEmitRef as constructed: { time: 0, signature: 'none' }
InitialStatusEmit == [time |-> 0 - ClockHorizon, signature |-> <<"none", NULL, NULL, 0, 0, 0>>]

\* what simulate({}) passes: no member is a number
NoInput == [forward |-> NaN, right |-> NaN, up |-> NaN, boost |-> NaN, yaw |-> NaN, pitch |-> NaN, durationMs |-> NaN]

\* scriptedRef after clearScriptedInput.  Axes and boost are in thousandths,
\* yaw in quarter turns and pitch in eighths of a turn per 16 ms; untilMs is
\* in ms from the latest frame, -1 once it lies before that frame.
NeutralScript == [forward |-> 0, right |-> 0, up |-> 0, boost |-> 1000, yaw |-> 0, pitch |-> 0, untilMs |-> 0 - 1]

\* scriptedRef as constructed.  live tells that applyScriptedInput wrote the
\* ref and no clear followed; input is what the call was given and age the
\* ms of the frames since, up to the first frame after untilMs.
InitialScripted == NeutralScript @@ [input |-> NoInput, age |-> 0, live |-> FALSE]

\* Earth where the startup orbit angle puts it
EarthStart(sci) == <<EarthDistance(sci), 0, 0>>

\* the camera prop of the Canvas
InitialCamera(sci) == VAdd(EarthStart(sci), <<2 * EarthRadius, (76 * EarthRadius) \div 100, 2 * EarthRadius>>)

\* a readiness test that does not wait for the camera mode to clear
ReadyForAutoMapInFlight(name, moon, mode) == TargetKey(name, moon) = "Earth" /\ moon = NULL

\* readyForAutoMap of the lock effect
ReadyForAutoMap(name, moon, mode) == mode = NULL /\ TargetKey(name, moon) = "Earth" /\ moon = NULL

\* no call yet
NoCall == [preferInner |-> FALSE, previousType |-> NULL, preferredMoonParent |-> NULL]

\* The state changes of one React commit and the effects they trigger: the
\* CameraPilot reset effect, the map lock effect, the controller's
\* enable/disable effect, its keyboard effect and the App's status effect.
\* lock0, st0, settled0 and released0 are the refs as the handler left them.
Commit(name, moon, mode, follow, free, auto, view, lock0, st0, settled0, released0) ==
    LET pilotDeps == <<cameraMode, selectedTargetKey, followSelected>> # <<mode, TargetKey(name, moon), follow>>
        lockDeps == <<cameraMode, selectedMoonKey, selectedTargetKey, viewMode>> # <<mode, moon, TargetKey(name, moon), view>>
        roamDeps == <<freeRoamEnabled \/ autoRoamEnabled, autoRoamEnabled>> # <<free \/ auto, auto>>
        keyDeps == <<freeRoamEnabled \/ autoRoamEnabled, freeRoamEnabled>> # <<free \/ auto, free>>
        ready == ReadyForAutoMap(name, moon, mode)
    IN  /\ selectedName' = name
        /\ selectedMoonKey' = moon
        /\ cameraMode' = mode
        /\ followSelected' = follow
        /\ freeRoamEnabled' = free
        /\ autoRoamEnabled' = auto
        /\ viewMode' = view
        /\ settledRef' = IF pilotDeps THEN FALSE ELSE settled0
        /\ releasedRef' = IF pilotDeps THEN FALSE ELSE released0
        /\ mapTransitionLock' = IF lockDeps /\ view = "space" /\ ~ready THEN TRUE ELSE lock0
        /\ mapLockTimer' = IF lockDeps THEN view = "space" /\ ready ELSE mapLockTimer
        /\ autoState' = IF roamDeps /\ ~auto THEN ResetAutoState(st0) ELSE st0
        /\ pressed' = IF keyDeps THEN {} ELSE pressed
        /\ scripted' = IF keyDeps /\ (freeRoamEnabled \/ ~free) THEN InitialScripted ELSE scripted
        /\ autoRoamStatus' = IF ~scientificMode \/ ~auto THEN NoStatus ELSE autoRoamStatus
        /\ selections' = IF auto # autoRoamEnabled THEN 0 ELSE selections
        /\ sessions' = IF auto /\ ~autoRoamEnabled THEN sessions + 1 ELSE sessions
        /\ callArgs' = IF auto # autoRoamEnabled THEN NoCall ELSE callArgs
        /\ callResult' = IF auto # autoRoamEnabled THEN NoTarget ELSE callResult

\* the state of a Canvas mounted for experience mode m, after the App's experienceMode effect
MountValues(m) ==
    [experienceMode |-> m,
     bodyRefs |-> BodyKeys,
     ephemeris |-> ModuleLoaded,
     selectedName |-> "Earth",
     selectedMoonKey |-> NULL,
     cameraMode |-> "focus",
     followSelected |-> TRUE,
     freeRoamEnabled |-> FALSE,
     autoRoamEnabled |-> FALSE,
     autoRoamStatus |-> NoStatus,
     viewMode |-> "space",
     mapTransitionLock |-> TRUE,
     mapLockTimer |-> FALSE,
     focusReleaseBlocked |-> TRUE,
     earthPos |-> EarthStart(m = "scientific"),
     cameraPos |-> InitialCamera(m = "scientific"),
     controlsTarget |-> VZero,
     settledRef |-> FALSE,
     releasedRef |-> FALSE,
     autoState |-> InitialAutoState,
     focusPos |-> VZero,
     waypointPos |-> VZero,
     autoStatusEmit |-> InitialStatusEmit,
     pressed |-> {},
     scripted |-> InitialScripted,
     lastDelta |-> 0,
     selections |-> 0,
     sessions |-> 0,
     moonPivot |-> MountedMoon(m = "scientific"),
     poseCall |-> NoPoseCall,
     statusLog |-> <<>>]

\* every variable but gestures and the call record has the value r gives it
StateIs(r) ==
    /\ experienceMode = r.experienceMode
    /\ bodyRefs = r.bodyRefs
    /\ ephemeris = r.ephemeris
    /\ selectedName = r.selectedName
    /\ selectedMoonKey = r.selectedMoonKey
    /\ cameraMode = r.cameraMode
    /\ followSelected = r.followSelected
    /\ freeRoamEnabled = r.freeRoamEnabled
    /\ autoRoamEnabled = r.autoRoamEnabled
    /\ autoRoamStatus = r.autoRoamStatus
    /\ viewMode = r.viewMode
    /\ mapTransitionLock = r.mapTransitionLock
    /\ mapLockTimer = r.mapLockTimer
    /\ focusReleaseBlocked = r.focusReleaseBlocked
    /\ earthPos = r.earthPos
    /\ cameraPos = r.cameraPos
    /\ controlsTarget = r.controlsTarget
    /\ settledRef = r.settledRef
    /\ releasedRef = r.releasedRef
    /\ autoState = r.autoState
    /\ focusPos = r.focusPos
    /\ waypointPos = r.waypointPos
    /\ autoStatusEmit = r.autoStatusEmit
    /\ pressed = r.pressed
    /\ scripted = r.scripted
    /\ lastDelta = r.lastDelta
    /\ selections = r.selections
    /\ sessions = r.sessions
    /\ moonPivot = r.moonPivot
    /\ poseCall = r.poseCall
    /\ statusLog = r.statusLog

Mounted(m) == StateIs(MountValues(m))


Init == Mounted("fun") /\ gestures = 0 /\ callArgs = NoCall /\ callResult = NoTarget

sceneVars == <<earthPos, cameraPos, controlsTarget, focusPos, waypointPos, autoStatusEmit>>

\* gestures the model follows on one canvas (a change of experience mode mounts a new one)
MaxGestures == 3

\* a handler runs for one more gesture
Gesture == gestures < MaxGestures /\ gestures' = gestures + 1

\* ------------------------------------------------------------------------
\* App: user interface handlers and timers
\* ------------------------------------------------------------------------
jumpTo(name) ==
    /\ Commit(name, NULL, "focus", TRUE, FALSE, FALSE, viewMode, mapTransitionLock, autoState, settledRef, releasedRef)
    /\ lastDelta' = 0
    /\ UNCHANGED ownVars
    /\ Gesture
    /\ UNCHANGED <<experienceMode, bodyRefs, ephemeris, focusReleaseBlocked, sceneVars>>

jumpToMoon(moonKey) ==
    /\ Commit(ParentOf(moonKey), moonKey, "focus", TRUE, FALSE, FALSE, viewMode, mapTransitionLock, autoState, settledRef, releasedRef)
    /\ lastDelta' = 0
    /\ UNCHANGED ownVars
    /\ Gesture
    /\ UNCHANGED <<experienceMode, bodyRefs, ephemeris, focusReleaseBlocked, sceneVars>>

goHome ==
    /\ Commit(NULL, NULL, "home", FALSE, FALSE, FALSE, viewMode, mapTransitionLock, autoState, settledRef, releasedRef)
    /\ lastDelta' = 0
    /\ UNCHANGED ownVars
    /\ Gesture
    /\ UNCHANGED <<experienceMode, bodyRefs, ephemeris, focusReleaseBlocked, sceneVars>>

returnToSpaceFromMap ==
    /\ viewMode = "map"
    /\ Commit("Earth", NULL, "focus", TRUE, freeRoamEnabled, autoRoamEnabled, "space", TRUE, autoState, settledRef, releasedRef)
    /\ lastDelta' = 0
    /\ UNCHANGED ownVars
    /\ Gesture
    /\ UNCHANGED <<experienceMode, bodyRefs, ephemeris, focusReleaseBlocked, sceneVars>>

\* the "Enable/Disable Free Explore" button
ToggleFreeExplore ==
    /\ IF ~freeRoamEnabled
       THEN Commit(NULL, NULL, NULL, FALSE, TRUE, FALSE, viewMode, mapTransitionLock, autoState, settledRef, releasedRef)
       ELSE Commit(selectedName, selectedMoonKey, cameraMode, followSelected, FALSE, autoRoamEnabled, viewMode, mapTransitionLock, autoState, settledRef, releasedRef)
    /\ lastDelta' = 0
    /\ UNCHANGED ownVars
    /\ Gesture
    /\ UNCHANGED <<experienceMode, bodyRefs, ephemeris, focusReleaseBlocked, sceneVars>>

\* the "Enable/Disable Free Roam Mode" button
ToggleFreeRoam ==
    /\ IF ~autoRoamEnabled
       THEN Commit(NULL, NULL, NULL, FALSE, FALSE, TRUE, viewMode, mapTransitionLock, autoState, settledRef, releasedRef)
       ELSE Commit(selectedName, selectedMoonKey, cameraMode, followSelected, freeRoamEnabled, FALSE, viewMode, mapTransitionLock, autoState, settledRef, releasedRef)
    /\ lastDelta' = 0
    /\ UNCHANGED ownVars
    /\ Gesture
    /\ UNCHANGED <<experienceMode, bodyRefs, ephemeris, focusReleaseBlocked, sceneVars>>

\* the experience mode buttons: the App's experienceMode effect runs and the
\* Canvas, keyed on the mode, is mounted afresh
setExperienceMode(m) ==
    /\ m # experienceMode
    /\ experienceMode' = MountValues(m).experienceMode
    /\ bodyRefs' = MountValues(m).bodyRefs
    /\ ephemeris' = ephemeris
    /\ selectedName' = MountValues(m).selectedName
    /\ selectedMoonKey' = MountValues(m).selectedMoonKey
    /\ cameraMode' = MountValues(m).cameraMode
    /\ followSelected' = MountValues(m).followSelected
    /\ freeRoamEnabled' = MountValues(m).freeRoamEnabled
    /\ autoRoamEnabled' = MountValues(m).autoRoamEnabled
    /\ autoRoamStatus' = MountValues(m).autoRoamStatus
    /\ viewMode' = MountValues(m).viewMode
    /\ mapTransitionLock' = MountValues(m).mapTransitionLock
    /\ mapLockTimer' = MountValues(m).mapLockTimer
    /\ focusReleaseBlocked' = MountValues(m).focusReleaseBlocked
    /\ earthPos' = MountValues(m).earthPos
    /\ cameraPos' = MountValues(m).cameraPos
    /\ controlsTarget' = MountValues(m).controlsTarget
    /\ settledRef' = MountValues(m).settledRef
    /\ releasedRef' = MountValues(m).releasedRef
    /\ autoState' = MountValues(m).autoState
    /\ focusPos' = MountValues(m).focusPos
    /\ waypointPos' = MountValues(m).waypointPos
    /\ autoStatusEmit' = MountValues(m).autoStatusEmit
    /\ pressed' = MountValues(m).pressed
    /\ scripted' = MountValues(m).scripted
    /\ lastDelta' = MountValues(m).lastDelta
    /\ selections' = MountValues(m).selections
    /\ sessions' = MountValues(m).sessions
    /\ moonPivot' = MountValues(m).moonPivot
    /\ poseCall' = MountValues(m).poseCall
    /\ statusLog' = statusLog
    /\ gestures' = 0
    /\ callArgs' = NoCall
    /\ callResult' = NoTarget

onPointerMissed ==
    /\ viewMode = "space"
    /\ cameraMode = NULL /\ ~scientificMode
    /\ Commit(NULL, NULL, cameraMode, FALSE, freeRoamEnabled, autoRoamEnabled, viewMode, mapTransitionLock, autoState, settledRef, releasedRef)
    /\ lastDelta' = 0
    /\ UNCHANGED ownVars
    /\ Gesture
    /\ UNCHANGED <<experienceMode, bodyRefs, ephemeris, focusReleaseBlocked, sceneVars>>

\* camera-to-target distances a wheel gesture leaves behind
DollyDistances == {2 * FP, 30 * FP}

\* OrbitControls, enabled while neither roam pilot is: the user zooms
OrbitControlsDolly(d) ==
    /\ ~autoRoamEnabled /\ ~freeRoamEnabled /\ viewMode = "space"
    /\ ~Tiny(VSub(cameraPos, controlsTarget))
    /\ cameraPos' = AlongFrom(controlsTarget, VSub(cameraPos, controlsTarget), d)
    /\ lastDelta' = 0
    /\ UNCHANGED ownVars
    /\ Gesture
    /\ UNCHANGED <<experienceMode, bodyRefs, ephemeris, focusReleaseBlocked, appVars, earthPos, controlsTarget, focusPos, waypointPos, autoStatusEmit, callVars>>

\* the key codes the model presses (FREE_ROAM_KEY_GROUPS.forward)
KeyCodes == {"KeyW"}

\* listeners attached by the keyboard effect iff enabled && keyboardEnabled
handleKeyDown(code) ==
    /\ freeRoamEnabled
    /\ pressed' = pressed \cup {code}
    /\ lastDelta' = 0
    /\ UNCHANGED ownVars
    /\ Gesture
    /\ UNCHANGED <<experienceMode, bodyRefs, ephemeris, focusReleaseBlocked, selectedName, selectedMoonKey, cameraMode, followSelected, freeRoamEnabled,
                   autoRoamEnabled, autoRoamStatus, viewMode, mapTransitionLock, mapLockTimer, settledRef, releasedRef, autoState, scripted, selections, sessions, sceneVars, callVars>>

handleKeyUp(code) ==
    /\ freeRoamEnabled
    /\ pressed' = pressed \ {code}
    /\ lastDelta' = 0
    /\ UNCHANGED ownVars
    /\ Gesture
    /\ UNCHANGED <<experienceMode, bodyRefs, ephemeris, focusReleaseBlocked, selectedName, selectedMoonKey, cameraMode, followSelected, freeRoamEnabled,
                   autoRoamEnabled, autoRoamStatus, viewMode, mapTransitionLock, mapLockTimer, settledRef, releasedRef, autoState, scripted, selections, sessions, sceneVars, callVars>>

\* normalizeAxis of applyScriptedInput
normalizeAxis(value) == IF ~IsFinite(value) THEN 0 ELSE Min2(Max2(value.v, 0 - 1000), 1000)

\* scriptedRef.current as applyScriptedInput builds it from input
ScriptedFrom(input) ==
    [forward |-> normalizeAxis(input.forward),
     right |-> normalizeAxis(input.right),
     up |-> normalizeAxis(input.up),
     boost |-> IF IsFinite(input.boost) THEN Min2(Max2(input.boost.v, 250), 8000) ELSE 1000,
     yaw |-> IF IsFinite(input.yaw) THEN input.yaw.v ELSE 0,
     pitch |-> IF IsFinite(input.pitch) THEN input.pitch.v ELSE 0,
     untilMs |-> IF IsFinite(input.durationMs) THEN Max2(16, input.durationMs.v) ELSE 16]

\* window.__solarFreeRoam.simulate and the 'solar:freeroam-input' event,
\* registered whether or not a pilot is enabled
applyScriptedInput(input) ==
    /\ scripted' = ScriptedFrom(input) @@ [input |-> input, age |-> 0, live |-> TRUE]
    /\ lastDelta' = 0
    /\ UNCHANGED ownVars
    /\ Gesture
    /\ UNCHANGED <<experienceMode, bodyRefs, ephemeris, focusReleaseBlocked, selectedName, selectedMoonKey, cameraMode, followSelected, freeRoamEnabled,
                   autoRoamEnabled, autoRoamStatus, viewMode, mapTransitionLock, mapLockTimer, settledRef, releasedRef, autoState, pressed, selections, sessions, sceneVars, callVars>>

\* window.__solarFreeRoam.clear
clearScriptedInput ==
    /\ scripted' = InitialScripted
    /\ lastDelta' = 0
    /\ UNCHANGED ownVars
    /\ Gesture
    /\ UNCHANGED <<experienceMode, bodyRefs, ephemeris, focusReleaseBlocked, selectedName, selectedMoonKey, cameraMode, followSelected, freeRoamEnabled,
                   autoRoamEnabled, autoRoamStatus, viewMode, mapTransitionLock, mapLockTimer, settledRef, releasedRef, autoState, pressed, selections, sessions, sceneVars, callVars>>

\* the 850 ms timer of the map lock effect fires
MapLockRelease ==
    /\ mapLockTimer
    /\ mapTransitionLock' = FALSE
    /\ mapLockTimer' = FALSE
    /\ lastDelta' = 0
    /\ UNCHANGED ownVars
    /\ UNCHANGED gestures
    /\ UNCHANGED <<experienceMode, bodyRefs, ephemeris, focusReleaseBlocked, selectedName, selectedMoonKey, cameraMode, followSelected, freeRoamEnabled,
                   autoRoamEnabled, autoRoamStatus, viewMode, settledRef, releasedRef, autoState, pressed, scripted, selections, sessions, sceneVars, callVars>>

\* 2400 ms have passed since the experienceMode effect; onReleaseFollow, which
\* CameraPilot calls while it tracks a followed body, is the one reader
FocusReleaseBlockExpires ==
    /\ focusReleaseBlocked
    /\ followSelected /\ cameraMode = NULL
    /\ focusReleaseBlocked' = FALSE
    /\ lastDelta' = 0
    /\ UNCHANGED ownVars
    /\ UNCHANGED gestures
    /\ UNCHANGED <<experienceMode, bodyRefs, ephemeris, appVars, sceneVars, callVars>>

\* ------------------------------------------------------------------------
\* Frame callbacks: Planet, CameraPilot, Scene
\* ------------------------------------------------------------------------
\* Planet.useFrame for Earth: the orbit advances unless freezeSolarOrbits
PlanetFrame ==
    /\ ~(scientificMode \/ followSelected)
    /\ \E i \in 1..(Len(EarthOrbit(scientificMode)) - 1) : earthPos = EarthOrbit(scientificMode)[i] /\ earthPos' = EarthOrbit(scientificMode)[i + 1]
    /\ lastDelta' = 0
    /\ UNCHANGED ownVars
    /\ UNCHANGED gestures
    /\ UNCHANGED <<experienceMode, bodyRefs, ephemeris, focusReleaseBlocked, appVars, cameraPos, controlsTarget, focusPos, waypointPos, autoStatusEmit, callVars>>

\* freezeAllMotion = followSelected && Boolean(selectedMoonKey)
freezeAllMotion == followSelected /\ selectedMoonKey # NULL

\* scientificMoonFreezeKey of the App
scientificMoonFreezeKey ==
    IF scientificMode /\ autoRoamEnabled /\ autoRoamStatus.targetType = "moon" /\ autoRoamStatus.focusKey # NULL THEN autoRoamStatus.focusKey ELSE NULL

\* the prop freezeAllMotion || freezeOrbit of the Moon with this key
MoonFrozen(key) == freezeAllMotion \/ scientificMoonFreezeKey = key

\* frames of a Moon the model follows
MaxMoonFrames == 3

\* pivot.current.rotation.y += delta * orbit * direction, delta in ms
MoonTurned(pivot, delta, freeze) ==
    LET direction == IF Retrograde(pivot.orbitPeriod, RawInclinationDeg(pivot.orbitInclinationRad)) THEN 0 - 1 ELSE 1
    IN  [pivot EXCEPT !.rotationY = @ + ((delta * MoonOrbit(pivot.orbitPeriod, freeze)) \div 1000) * direction, !.frames = @ + 1]

\* Moon.useFrame
MoonFrame(delta) ==
    /\ moonPivot.frames < MaxMoonFrames
    /\ moonPivot' = MoonTurned(moonPivot, delta, MoonFrozen(moonPivot.key))
    /\ lastDelta' = 0
    /\ UNCHANGED <<experienceMode, bodyRefs, ephemeris, focusReleaseBlocked, appVars, sceneVars, gestures, callVars, poseCall, statusLog>>

HomeCamera(sci) == IF sci THEN <<0, 600 * FP, 2600 * FP>> ELSE <<0, 60 * FP, 260 * FP>>

\* CameraPilot: nextPos of a focus on the moon key
MoonNextPos(key, earth, sci, freeze) ==
    LET target == BodyPos(key, earth, sci)
        parentPos == BodyPos(ParentOf(key), earth, sci)
        outward0 == VSub(target, parentPos)
        moonOutward == IF Tiny(outward0) THEN <<5, 1, 5>> ELSE outward0
        radius == BodyRadius(key, sci)
        desiredDistance == IF freeze THEN Max2(MulDiv(radius, 42, 10), (11 * FP) \div 10) ELSE Max2(MulDiv(radius, 52, 10), (14 * FP) \div 10)
        side0 == Cross(SetLength(moonOutward, 1000), <<0, 1, 0>>)
        moonSide == IF Tiny(side0) THEN <<1, 0, 0>> ELSE side0
        lift == <<0, MulDiv(desiredDistance, 18, 100), 0>>
        first == VAdd(VAdd(AlongFrom(target, moonOutward, desiredDistance), SetLength(moonSide, MulDiv(desiredDistance, 125, 100))), lift)
        minParentClearance == MulDiv(BodyRadius(ParentOf(key), sci), 108, 100)
    IN  IF Dist(first, parentPos) < minParentClearance
        THEN VAdd(AlongFrom(parentPos, moonOutward, minParentClearance), SetLength(moonSide, MulDiv(desiredDistance, 125, 100)))
        ELSE first

\* CameraPilot: nextPos of a focus on a planet or the Sun
PlanetNextPos(key, earth, sci, freeze) ==
    LET radius == BodyRadius(key, sci)
        desiredDistance == IF freeze THEN Max2(MulDiv(radius, 16, 10), (8 * FP) \div 10) ELSE Max2(2 * radius, (15 * FP) \div 10)
    IN  VAdd(BodyPos(key, earth, sci), <<desiredDistance, MulDiv(desiredDistance, 38, 100), desiredDistance>>)

\* target and nextPos of a CameraPilot frame, and the distance beyond which follow is released
PilotGoal(mode, key, freeze, earth, sci) ==
    [hit |-> key # NULL /\ InKeys(bodyRefs, key),
     target |-> IF mode = "home" \/ key = NULL THEN VZero ELSE BodyPos(key, earth, sci),
     nextPos |-> IF mode = "home" THEN HomeCamera(sci) ELSE IF key = NULL THEN VZero ELSE IF IsMoonKey(key) THEN MoonNextPos(key, earth, sci, freeze) ELSE PlanetNextPos(key, earth, sci, freeze),
     releaseDistance |-> IF key = NULL THEN 18 * FP ELSE Max2(BodyRadius(key, sci) * 10, 18 * FP),
     shouldLockCurrentPlanet |-> sci /\ key # NULL /\ ~IsMoonKey(key) /\ key # "Sun"]

\* the pilot without its "if (!hit) return"
PilotIdleWithoutHit(mode, follow, hit) == IF mode = NULL THEN ~follow ELSE FALSE

\* CameraPilot.useFrame returns before it moves anything: nothing to follow
\* while tracking, or no entry of bodyRefs for the key of a focus
PilotIdle(mode, follow, hit) == IF mode = NULL THEN ~follow \/ ~hit ELSE mode = "focus" /\ ~hit

\* the settle test without targetClose
SettleTestCameraOnly(cam, nextPos, tgt, target) == Near(cam, nextPos, 80)

\* cameraClose && targetClose
SettleTest(cam, nextPos, tgt, target) == Near(cam, nextPos, 80) /\ Near(tgt, target, 45)

\* the auto-release test were lockPlanetFocus not there
ReleaseTestUnlocked(lock, released, currentDistance, releaseDistance) == ~released /\ currentDistance > releaseDistance

\* the auto-release of the tracking branch: not locked, not released yet, and too far
ReleaseTest(lock, released, currentDistance, releaseDistance) == ~lock /\ ~released /\ currentDistance > releaseDistance

\* One CameraPilot.useFrame call on the pilot's state p = [cam, tgt, settled,
\* released, onSettled, onReleaseFollow]; the last two tell whether the call
\* fired the callback.  g is PilotGoal of the frame.
CameraPilotStep(p, g, mode, follow) ==
    LET quiet == [p EXCEPT !.onSettled = FALSE, !.onReleaseFollow = FALSE]
        glide == IF mode = "focus" THEN 16 ELSE 11
        cam1 == Lerp(p.cam, g.nextPos, glide)
        tgt1 == Lerp(p.tgt, g.target, glide)
        release == ReleaseTest(g.shouldLockCurrentPlanet, p.released, Dist(p.cam, g.target), g.releaseDistance)
        settle == ~p.settled /\ SettleTest(cam1, g.nextPos, tgt1, g.target)
    IN  IF PilotIdle(mode, follow, g.hit) THEN quiet
        ELSE IF mode = NULL
        THEN [quiet EXCEPT !.tgt = Lerp(p.tgt, g.target, 18), !.released = p.released \/ release, !.onReleaseFollow = release]
        ELSE [quiet EXCEPT !.cam = cam1, !.tgt = tgt1, !.settled = p.settled \/ settle, !.onSettled = settle]

\* the frames of one glide, at most this many in one step
FocusFrames == 120

\* CameraPilotStep repeated until a callback fires or nothing moves any more
RECURSIVE Glide(_, _, _, _, _)
Glide(p, n, g, mode, follow) ==
    LET q == CameraPilotStep(p, g, mode, follow)
    IN  IF n <= 1 \/ q.onSettled \/ q.onReleaseFollow \/ (q.cam = p.cam /\ q.tgt = p.tgt) THEN q
        ELSE Glide(q, n - 1, g, mode, follow)

\* the pilot's state as the frame finds it
PilotState == [cam |-> cameraPos, tgt |-> controlsTarget, settled |-> settledRef, released |-> releasedRef, onSettled |-> FALSE, onReleaseFollow |-> FALSE]

\* what the frames that left the pilot in q did to the App; onSettled is
\* setCameraMode(null), onReleaseFollow the App's guarded setFollowSelected(false)
CameraPilotRan(q) ==
    /\ cameraPos' = q.cam
    /\ controlsTarget' = q.tgt
    /\ Commit(selectedName, selectedMoonKey, IF q.onSettled THEN NULL ELSE cameraMode,
              IF q.onReleaseFollow /\ ~focusReleaseBlocked THEN FALSE ELSE followSelected,
              freeRoamEnabled, autoRoamEnabled, viewMode, mapTransitionLock, autoState, q.settled, q.released)
    /\ lastDelta' = 0
    /\ UNCHANGED ownVars
    /\ UNCHANGED gestures
    /\ UNCHANGED <<experienceMode, bodyRefs, ephemeris, focusReleaseBlocked, earthPos, focusPos, waypointPos, autoStatusEmit>>

\* target, nextPos and release distance of the frame about to run
FrameGoal == PilotGoal(cameraMode, selectedTargetKey, freezeAllMotion, earthPos, scientificMode)

\* CameraPilot.useFrame over the consecutive frames of one glide
CameraPilotFrames == \E q \in {Glide(PilotState, FocusFrames, FrameGoal, cameraMode, followSelected)} : CameraPilotRan(q)

\* CameraPilot.useFrame, one call
CameraPilotFrame == \E q \in {CameraPilotStep(PilotState, FrameGoal, cameraMode, followSelected)} : CameraPilotRan(q)

\* the early returns of onEarthTelemetry without "if (autoRoamEnabled) return"
TelemetryDroppedUnlessRoaming(auto, view, mode, key, moon) == view # "space" \/ mode # NULL \/ key # "Earth" \/ moon # NULL

\* the four early returns of onEarthTelemetry
TelemetryDropped(auto, view, mode, key, moon) == auto \/ view # "space" \/ mode # NULL \/ key # "Earth" \/ moon # NULL

\* Scene.useFrame: Earth telemetry handed to the App's onEarthTelemetry
SceneFrame ==
    LET surfaceDistance == Dist(cameraPos, earthPos) - EarthRadius
        lock1 == IF surfaceDistance > MAP_ENTER_RELEASE_SURFACE_BUFFER THEN FALSE ELSE mapTransitionLock
    IN  /\ InKeys(bodyRefs, "Earth")
        /\ ~TelemetryDropped(autoRoamEnabled, viewMode, cameraMode, selectedTargetKey, selectedMoonKey)
        /\ IF surfaceDistance > MAP_ENTER_SURFACE_BUFFER \/ lock1
           THEN Commit(selectedName, selectedMoonKey, cameraMode, followSelected, freeRoamEnabled, autoRoamEnabled, viewMode, lock1, autoState, settledRef, releasedRef)
           ELSE Commit(selectedName, selectedMoonKey, NULL, FALSE, freeRoamEnabled, autoRoamEnabled, "map", TRUE, autoState, settledRef, releasedRef)
        /\ lastDelta' = 0
        /\ UNCHANGED ownVars
        /\ UNCHANGED gestures
        /\ UNCHANGED <<experienceMode, bodyRefs, ephemeris, focusReleaseBlocked, sceneVars>>

\* ------------------------------------------------------------------------
\* FreeRoamController.useFrame
\* ------------------------------------------------------------------------
\* useState(0.2): autoRoamSpeed in tenths
autoRoamSpeed == 2

\* travelTimeoutMs = (scientificMode ? 48_000 : 16_000) / max(clamp(autoRoamSpeed, 0.1, 1), 0.1)
TravelTimeoutMs(sci) == ((IF sci THEN 48000 ELSE 16000) * 10) \div Max2(Min2(Max2(autoRoamSpeed, 1), 10), 1)

\* the clock readings of autoStateRef relative to a frame dt ms later
Rebase(s, dt) == [s EXCEPT !.holdUntilMs = Max2(s.holdUntilMs - dt, 0), !.travelStartedMs = Max2(s.travelStartedMs - dt, 0 - ClockHorizon)]

\* travelTimedOut (nowMs is 0 in rebased readings)
TravelTimedOut(s, sci) == s.hasTarget /\ s.mode = "travel" /\ 0 - s.travelStartedMs > TravelTimeoutMs(sci)

\* a departure test that lets either condition alone end the orbit
OrbitReadyToDepartEither(s) == s.hasTarget /\ s.mode = "orbit" /\ (0 >= s.holdUntilMs \/ s.orbitTurnsProgress >= s.orbitTurnsTarget)

\* orbitReadyToDepart
OrbitReadyToDepart(s) == s.hasTarget /\ s.mode = "orbit" /\ 0 >= s.holdUntilMs /\ s.orbitTurnsProgress >= s.orbitTurnsTarget

\* a test that asks for a destination only to replace one
NeedsTargetToReplace(s, sci) == TravelTimedOut(s, sci) \/ OrbitReadyToDepart(s)

\* needsTarget
NeedsTarget(s, sci) == ~s.hasTarget \/ TravelTimedOut(s, sci) \/ OrbitReadyToDepart(s)

\* the options object passed to chooseAutoRoamTarget
ChooseOptions(s) == [preferInner |-> s.forceInnerNext, previousType |-> s.targetType,
                     preferredMoonParent |-> IF s.targetType = "planet" THEN s.focusKey ELSE NULL]

\* the assignments of "if (next) { ... }"
TakeTarget(s, next) == [s EXCEPT !.hasTarget = TRUE, !.mode = "travel", !.holdUntilMs = 0, !.travelStartedMs = 0,
                                 !.targetType = next.type, !.focusKey = next.focusKey, !.arrivalDistance = next.arrivalDistance,
                                 !.orbitTurnsTarget = 1000, !.orbitTurnsProgress = 0, !.orbitPrevAzimuth = NoAzimuth,
                                 !.forceInnerNext = next.type \in {"oort", "kuiper"}]

\* an arrival test that waits until half the arrival distance is left
ArrivedAtHalf(s, targetDistance) == s.mode = "travel" /\ targetDistance * 2 <= s.arrivalDistance

\* the arrival test of the travel -> orbit transition
Arrived(s, targetDistance) == s.mode = "travel" /\ targetDistance <= s.arrivalDistance

\* a hold drawn from the shorter range whatever the target
HoldDurationShort(type, long) == IF long THEN 9000 ELSE 4000

\* THREE.MathUtils.randInt(10_000, 22_000) or randInt(4_000, 9_000): the ends of the range
HoldDuration(type, long) == IF type \in {"moon", "planet"} THEN (IF long THEN 22000 ELSE 10000) ELSE (IF long THEN 9000 ELSE 4000)

\* randFloat(1.35, 3.35), randFloat(0.75, 1.75) or randFloat(0.45, 1.1), in thousandths
TurnsTarget(type, long) == IF type \in {"moon", "planet"} THEN (IF long THEN 3350 ELSE 1350) ELSE IF type = "sun" THEN (IF long THEN 1750 ELSE 750) ELSE (IF long THEN 1100 ELSE 450)

\* the assignments of the travel -> orbit transition
EnterOrbit(s, cam, focus, rnd) == [s EXCEPT !.mode = "orbit", !.holdUntilMs = HoldDuration(s.targetType, rnd.longHold),
                                           !.orbitTurnsTarget = TurnsTarget(s.targetType, rnd.longTurns), !.orbitTurnsProgress = 0,
                                           !.orbitPrevAzimuth = Azimuth(VSub(cam, focus))]

\* deltaAzimuth without the two while loops
WrapAzimuthSkipped(d) == d

\* deltaAzimuth wrapped into [-pi, pi], in octants
WrapAzimuth(d) == IF d > 4 THEN d - 8 ELSE IF d < -4 THEN d + 8 ELSE d

\* radialDir of the orbit branch
RadialDir(cam, focus, rnd) == IF Tiny(VSub(cam, focus)) THEN rnd.dir ELSE VSub(cam, focus)

\* an accounting that moves the baseline and counts nothing
CountTurnsStalled(s, cam, focus, rnd) == [s EXCEPT !.orbitPrevAzimuth = Azimuth(RadialDir(cam, focus, rnd))]

\* the orbit-turn accounting of the orbit branch
CountTurns(s, cam, focus, rnd) ==
    LET orbitAzimuth == Azimuth(RadialDir(cam, focus, rnd))
        gained == IF s.orbitPrevAzimuth # NoAzimuth THEN Abs(WrapAzimuth(orbitAzimuth - s.orbitPrevAzimuth)) * 125 ELSE 0
    IN  [s EXCEPT !.orbitTurnsProgress = s.orbitTurnsProgress + gained, !.orbitPrevAzimuth = orbitAzimuth]

\* state.camera.position.add(step): in travel the step is rnd.travelShare
\* ten-thousandths of the way to the waypoint, at most maxTravelStep = 0.32; in
\* orbit it is nothing or a quarter turn about the focus, drifting inward
MoveCamera(s, cam, target, focus, rnd) ==
    LET radial == RadialDir(cam, focus, rnd)
    IN  IF s.mode = "travel" THEN VAdd(cam, VMulDiv(VSub(target, cam), Min2(rnd.travelShare, 3200), 10000))
        ELSE IF ~rnd.turn THEN cam
        ELSE IF radial[1] = 0 /\ radial[3] = 0 THEN VAdd(cam, <<0, 0, Abs(radial[2])>>)
        ELSE VAdd(focus, VMulDiv(RotY(radial, 1), 80, 100))

\* minEarthDistance of the frame callback
FrameMinEarthDistance == EarthRadius + MAP_ENTER_SURFACE_BUFFER + (34 * FP) \div 100

\* a tick that leaves the camera where the step put it
EarthClearanceSkipped(cam, earth) == cam

\* the Earth clearance correction at the end of an auto-roam tick
EarthClearance(cam, earth) ==
    LET currentEarthDistance == Dist(cam, earth)
        targetDir == IF Tiny(VSub(cam, earth)) THEN <<5, 1, 3>> ELSE VSub(cam, earth)
        correction == FrameMinEarthDistance - currentEarthDistance + (2 * FP) \div 100
    IN  IF currentEarthDistance < FrameMinEarthDistance THEN VAdd(cam, SetLength(targetDir, correction)) ELSE cam

\* controls.target after the tick: the camera looks at the focus in orbit and
\* on the near approach, else along its course
LookTarget(s, cam, targetDistance, target, focus, oldTarget, sci) ==
    LET toFocus == s.mode = "orbit" \/ targetDistance < s.arrivalDistance * 5
        base0 == IF toFocus THEN VSub(focus, cam) ELSE VSub(target, cam)
        base1 == IF Tiny(base0) THEN VSub(oldTarget, cam) ELSE base0
        lookBaseDir == IF Tiny(base1) THEN <<0, 0, -1>> ELSE base1
        lookDistance == Max2(Dist(cam, focus), IF sci THEN 45 * FP ELSE 6 * FP)
    IN  AlongFrom(cam, lookBaseDir, lookDistance)

\* the status object of a tick with a target (etaSeconds, a function of the
\* smoothed speed, is left out; distance is kept in tens of scene units)
TargetStatus(s, targetDistance) ==
    [mode |-> s.mode, targetType |-> s.targetType, focusKey |-> s.focusKey, distance |-> RDiv(targetDistance, 10 * FP),
     holdRemainingMs |-> Max2(0, s.holdUntilMs), orbitTurnsProgress |-> s.orbitTurnsProgress, orbitTurnsTarget |-> s.orbitTurnsTarget]

\* the status object of a tick without a target
AcquiringStatus == [mode |-> "acquiring", targetType |-> NULL, focusKey |-> NULL, distance |-> 0, holdRemainingMs |-> 0, orbitTurnsProgress |-> 0, orbitTurnsTarget |-> 0]

\* signature of emitAutoRoamStatus
Signature(status) == <<status.mode, status.targetType, status.focusKey, status.distance, RDiv(status.holdRemainingMs, 200), RDiv(status.orbitTurnsProgress, 100)>>

\* emitAutoRoamStatus(status, nowMs), nowMs = 0 in rebased readings; callback
\* tells whether onAutoRoamStatus is defined.  Returns the ref and whether
\* the callback was called.
EmitAutoRoamStatus(emit, status, callback) ==
    LET shouldEmit == Signature(status) # emit.signature \/ 0 - emit.time > 220
    IN  IF callback /\ shouldEmit THEN [ref |-> [time |-> 0, signature |-> Signature(status)], called |-> TRUE]
        ELSE [ref |-> emit, called |-> FALSE]

\* the calls the log keeps at most
MaxLogged == 8

\* the log dt ms later, after a tick that did or did not call onAutoRoamStatus
Logged(log, dt, delivered) ==
    LET aged == SelectSeq([i \in 1..Len(log) |-> log[i] + dt], LAMBDA a : a < 1000)
        all == IF delivered THEN <<0>> \o aged ELSE aged
    IN  SubSeq(all, 1, Min2(Len(all), MaxLogged))

\* autoStatusEmitRef with its clock reading relative to a frame dt ms later
EmitRebased(dt) == [autoStatusEmit EXCEPT !.time = Max2(autoStatusEmit.time - dt, 0 - ClockHorizon)]

\* a timeout that leaves forceInnerNext alone
MarkTimedOutSkipped(s, sci) == s

\* "if (travelTimedOut) autoState.forceInnerNext = true"
MarkTimedOut(s, sci) == IF TravelTimedOut(s, sci) THEN [s EXCEPT !.forceInnerNext = TRUE] ELSE s

\* the travel -> orbit transition and the turn accounting of a tick with a target
OrbitCounted(s, targetDistance, focus, rnd) ==
    IF Arrived(s, targetDistance) THEN CountTurns(EnterOrbit(s, cameraPos, focus, rnd), cameraPos, focus, rnd)
    ELSE IF s.mode = "orbit" THEN CountTurns(s, cameraPos, focus, rnd)
    ELSE s

\* what a tick leaves behind: the new autoState, focus, waypoint, camera,
\* controls target, emit ref and the status held by the App
TickResult(s, chose, focus, waypoint, cam, target, sent, status) ==
    [chose |-> chose, autoState |-> s, focus |-> focus, waypoint |-> waypoint, camera |-> cam, target |-> target,
     emit |-> sent.ref, status |-> IF sent.called THEN status ELSE autoRoamStatus, delivered |-> sent.called]

\* the tick from the camera step on: s is the state after the turn accounting
TickMoved(s, chose, focus, waypoint, targetPos, targetDistance, cam, dt) ==
    TickResult(s, chose, focus, waypoint, cam,
               LookTarget(s, cam, targetDistance, targetPos, focus, controlsTarget, scientificMode),
               EmitAutoRoamStatus(EmitRebased(dt), TargetStatus(s, targetDistance), scientificMode /\ autoRoamEnabled),
               TargetStatus(s, targetDistance))

\* the tick with a target at targetPos, targetDistance away
TickToward(s, chose, focus, waypoint, targetPos, targetDistance, dt, rnd) ==
    TickMoved(s, chose, focus, waypoint, targetPos, targetDistance,
              IF InKeys(bodyRefs, "Earth") THEN EarthClearance(MoveCamera(s, cameraPos, targetPos, focus, rnd), earthPos) ELSE MoveCamera(s, cameraPos, targetPos, focus, rnd), dt)

\* how far from Earth the model follows a manual flight
ManualRange(sci) == IF sci THEN 80 * FP ELSE 8 * FP

\* baseSpeed * delta of the manual integrator
ManualDistance(cam, sci, dt) ==
    LET cameraRadius == VLen(cam)
        baseSpeed == IF sci THEN Min2(Max2(MulDiv(cameraRadius, 24, 10000), 25 * FP), 15000 * FP) ELSE Min2(Max2(MulDiv(cameraRadius, 8, 100), 3 * FP), 180 * FP)
    IN  MulDiv(baseSpeed, dt, 1000)

\* scriptedRef dt ms later
ScriptAged(s, dt) == [s EXCEPT !.untilMs = Max2(s.untilMs - dt, 0 - 1), !.age = IF s.live /\ s.untilMs >= 0 THEN s.age + dt ELSE s.age]

\* a frame that reads the scripted values whatever the clock says
ScriptedActiveAlways(s) == TRUE

\* scriptedActive = nowMs <= scripted.untilMs, s being the ref at the frame
ScriptedActive(s) == s.untilMs >= 0

\* what the integrator reads of the ref s: every use is under "if (scriptedActive)"
ScriptRead(s) == IF ScriptedActive(s) THEN s ELSE NeutralScript

\* the look direction d with its pitch raised by an eighth of a turn, the
\* pitch clamped to 1.55 rad (tan(pi/2 - pi/4 - 0.0208) = 0.959)
PitchedUp(d) ==
    LET H == VLen(<<d[1], 0, d[3]>>)
        L == VLen(d)
        clamped == d[2] > MulDiv(H, 959, 1000)
        H1 == IF clamped THEN MulDiv(L, 208, 10000) ELSE MulDiv(H - d[2], 7071, 10000)
        V1 == IF clamped THEN MulDiv(L, 9998, 10000) ELSE MulDiv(H + d[2], 7071, 10000)
        level == IF H = 0 THEN <<0, 0, 0 - 1>> ELSE <<d[1], 0, d[3]>>
    IN  IF H1 = 0 THEN <<0, V1, 0>> ELSE VAdd(SetLength(level, H1), <<0, V1, 0>>)

FlipY(d) == <<d[1], 0 - d[2], d[3]>>

\* viewEuler.x = clamp(viewEuler.x + pitchDelta, -1.55, 1.55), n eighths of a turn
RECURSIVE Pitched(_, _)
Pitched(d, n) == IF n = 0 THEN d ELSE IF n > 0 THEN Pitched(PitchedUp(d), n - 1) ELSE Pitched(FlipY(PitchedUp(FlipY(d))), n + 1)

\* viewEuler.y += yawDelta, q quarter turns
Yawed(d, q) == RotY(d, (4 - (q % 4)) % 4)

\* controls.target after the scripted turn of yawDelta quarter turns and
\* pitchDelta eighths of a turn: targetDistance ahead of the camera
ScriptLook(cam, tgt, yawDelta, pitchDelta) ==
    IF (yawDelta # 0 \/ pitchDelta # 0) /\ ~Tiny(VSub(tgt, cam))
    THEN VAdd(cam, SetLength(Yawed(Pitched(VSub(tgt, cam), pitchDelta), yawDelta), Max2(Dist(cam, tgt), FP)))
    ELSE tgt

\* right = forward x camera.up, (1, 0, 0) where that is too short
RightOf(d) == IF d[1] = 0 /\ d[3] = 0 THEN <<1000, 0, 0>> ELSE SetLength(<<0 - d[3], 0, d[1]>>, 1000)

\* move before it is normalized, d being the look direction: forward for
\* the key, and forward, right and up scaled by the scripted axes
MoveOf(d, keys, s) ==
    IF Tiny(d) THEN VZero
    ELSE IF s.forward = 0 /\ s.right = 0 /\ s.up = 0 THEN (IF "KeyW" \in keys THEN d ELSE VZero)
    ELSE VAdd(VMulDiv(SetLength(d, 1000), s.forward + (IF "KeyW" \in keys THEN 1000 ELSE 0), 1000),
              VAdd(VMulDiv(RightOf(d), s.right, 1000), <<0, s.up, 0>>))

\* step = move.normalize() * distance, nothing "if (move.lengthSq() < 1e-8)"
StepOf(move, distance) == IF move = VZero THEN VZero ELSE SetLength(move, distance)

\* camera.position.add(step) and controls.target.add(step)
Flown(cam, tgt1, step) == [cam |-> VAdd(cam, step), tgt |-> VAdd(tgt1, step), step |-> step]

\* The manual integrator dt ms after the previous frame, with the keys in
\* pressed and the scripted values s: the camera, the look target and the
\* step taken.  (The mouse drag is left out, and so is OrbitControls.update().)
ManualStep(cam, tgt, sci, dt, keys, s) ==
    IF keys = {} /\ s.forward = 0 /\ s.right = 0 /\ s.up = 0 /\ s.yaw = 0 /\ s.pitch = 0
    THEN Flown(cam, tgt, VZero)
    ELSE CHOOSE r \in UNION {{Flown(cam, tgt1, step) : step \in {StepOf(MoveOf(VSub(tgt1, cam), keys, s), MulDiv(ManualDistance(cam, sci, dt), s.boost, 1000))}} :
                                tgt1 \in {ScriptLook(cam, tgt, (s.yaw * dt) \div 16, (s.pitch * dt) \div 16)}} : TRUE

\* the integrator on the state as the frame dt ms after the previous one finds it
ManualFrame(dt) == ManualStep(cameraPos, controlsTarget, scientificMode, dt, pressed, ScriptRead(ScriptAged(scripted, dt)))

\* the tick once the destination is settled: without one the callback emits
\* 'acquiring' and leaves the camera to the manual integrator
TickAt(s, chose, focus, waypoint, dt, rnd) ==
    IF ~s.hasTarget
    THEN TickResult(s, chose, focus, waypoint, cameraPos, controlsTarget,
                    EmitAutoRoamStatus(EmitRebased(dt), AcquiringStatus, scientificMode /\ autoRoamEnabled), AcquiringStatus)
    ELSE TickToward(OrbitCounted(s, Dist(IF s.mode = "travel" THEN waypoint ELSE focus, cameraPos), focus, rnd), chose, focus, waypoint,
                    IF s.mode = "travel" THEN waypoint ELSE focus, Dist(IF s.mode = "travel" THEN waypoint ELSE focus, cameraPos), dt, rnd)

\* "if (needsTarget) { const next = chooseAutoRoamTarget(...); if (next) {...} }"
TickTaken(s, needs, next, dt, rnd) ==
    [called |-> needs, args |-> ChooseOptions(s), result |-> IF needs THEN next ELSE NoTarget] @@
    TickAt(IF needs /\ next.ok THEN TakeTarget(s, next) ELSE s, needs /\ next.ok,
           IF needs /\ next.ok THEN next.focus ELSE focusPos, IF needs /\ next.ok THEN next.waypoint ELSE waypointPos, dt, rnd)

\* the tick from the timeout mark on
TickChoose(s, dt, rnd) ==
    TickTaken(s, NeedsTarget(s, scientificMode), chooseAutoRoamTarget(cameraPos, ChooseOptions(s), bodyRefs, earthPos, scientificMode, rnd), dt, rnd)

\* The auto-roam branch of the frame callback, dt ms after the previous tick
AutoRoamTick(dt, rnd) == TickChoose(MarkTimedOut(Rebase(autoState, dt), scientificMode), dt, rnd)

\* the model follows an auto-roam session up to this many destinations
MaxSelections == 2

\* a frame whose auto branch does not return: the manual integrator moves the
\* camera on from where the pilot put it
FrameCameraWithoutReturn(t, m) == VAdd(t.camera, VSub(m.cam, cameraPos))

\* camera.position after the frame: the auto branch ends with "return" when
\* it has a target, else the manual integrator runs
FrameCamera(t, m) == IF t.autoState.hasTarget THEN t.camera ELSE m.cam

\* FreeRoamController.useFrame, dt ms after its previous call: the auto-roam
\* branch returns if it has a target, else the manual integrator runs
FreeRoamFrame(dt, rnd) ==
    /\ freeRoamEnabled \/ autoRoamEnabled
    /\ IF autoRoamEnabled
       THEN \E t \in {AutoRoamTick(dt, rnd)}, m \in {ManualFrame(dt)} :
            /\ selections < MaxSelections
            /\ autoState' = t.autoState
            /\ focusPos' = t.focus
            /\ waypointPos' = t.waypoint
            /\ cameraPos' = FrameCamera(t, m)
            /\ controlsTarget' = IF t.autoState.hasTarget THEN t.target ELSE m.tgt
            /\ autoStatusEmit' = t.emit
            /\ autoRoamStatus' = t.status
            /\ statusLog' = Logged(statusLog, dt, t.delivered)
            /\ selections' = IF t.chose THEN selections + 1 ELSE selections
            /\ callArgs' = IF t.called THEN t.args ELSE callArgs
            /\ callResult' = IF t.called THEN t.result ELSE callResult
            /\ lastDelta' = dt
       ELSE \E m \in {ManualFrame(dt)} :
            /\ m.step # VZero => Dist(cameraPos, earthPos) <= ManualRange(scientificMode)
            /\ cameraPos' = m.cam
            /\ controlsTarget' = m.tgt
            /\ lastDelta' = 0
            /\ UNCHANGED <<autoState, focusPos, waypointPos, autoStatusEmit, autoRoamStatus, selections, callVars, statusLog>>
    /\ scripted' = ScriptAged(scripted, dt)
    /\ UNCHANGED <<experienceMode, bodyRefs, ephemeris, focusReleaseBlocked, selectedName, selectedMoonKey, cameraMode, followSelected, freeRoamEnabled,
                   autoRoamEnabled, viewMode, mapTransitionLock, mapLockTimer, settledRef, releasedRef, pressed, earthPos, sessions, gestures, moonPivot, poseCall>>

\* FreeRoamController.useFrame with no pilot enabled: "if (!enabled) return"
IdleRoamFrame(dt) ==
    /\ ~(freeRoamEnabled \/ autoRoamEnabled)
    /\ scripted.live /\ scripted.untilMs >= 0
    /\ scripted' = ScriptAged(scripted, dt)
    /\ lastDelta' = 0
    /\ UNCHANGED ownVars
    /\ UNCHANGED gestures
    /\ UNCHANGED <<experienceMode, bodyRefs, ephemeris, focusReleaseBlocked, selectedName, selectedMoonKey, cameraMode, followSelected, freeRoamEnabled,
                   autoRoamEnabled, autoRoamStatus, viewMode, mapTransitionLock, mapLockTimer, settledRef, releasedRef, autoState, pressed, selections, sessions, sceneVars, callVars>>

\* ------------------------------------------------------------------------
\* Inputs of the frame callback
\* ------------------------------------------------------------------------
\* What a frame brings: the ms since the previous frame, the share of the
\* way to the waypoint the camera advances (percent) and whether the orbit
\* carries the camera on.  A frame of a visible tab moves the camera, the
\* first frame after the tab was hidden finds the clock far ahead.
FrameDraws == {[dt |-> 2000, travelShare |-> 3200, turn |-> TRUE], [dt |-> 100000, travelShare |-> 0, turn |-> FALSE]}

\* Math.random() * totalWeight in thousandths of the total weight
Picks == {50, 700}

\* the draw behind the stand-off distance, in percent
Extras == {0, 90}

\* the draws a frame makes when it chooses a destination
SelectionDraws == [takeMoon : {FALSE}, keepPrev : BOOLEAN, pick : Picks, dir : {<<1, 0, 0>>, <<-1, 0, 0>>}, extra : {90}]

NoSelectionDraw == [takeMoon |-> FALSE, keepPrev |-> FALSE, pick |-> 50, dir |-> <<1, 0, 0>>, extra |-> 0]

\* the draws of an arrival
ArrivalDraws == [longHold : BOOLEAN, longTurns : {FALSE}]

\* the draws held fixed: indices into the key lists and the place in a field
FixedDraws == [moonPct |-> 0, keyPct |-> 0, bandT |-> 50, bandTheta |-> 0, bandY |-> 50, oortDir |-> <<1, 0, 0>>, oortR |-> 50]

\* whether the frame dt ms after the previous one asks for a destination
WillSelect(dt) == autoRoamEnabled /\ NeedsTarget(Rebase(autoState, dt), scientificMode)

\* the draws of a frame that asks for a destination, and of one that does not
DrawsOf(dt, selecting) == IF WillSelect(dt) THEN selecting ELSE {NoSelectionDraw}

\* the draws a frame needs besides those of a selection and an arrival
FrameRest(f) == [travelShare |-> f.travelShare, turn |-> f.turn] @@ FixedDraws

\* a frame of the roam controller during a session
Tick ==
    \E f \in FrameDraws, arr \in ArrivalDraws : \E sel \in DrawsOf(f.dt, SelectionDraws) :
        FreeRoamFrame(f.dt, sel @@ arr @@ FrameRest(f))

\* ------------------------------------------------------------------------
\* The App under a user who makes up to MaxGestures gestures per canvas
\* ------------------------------------------------------------------------
\* the draws of the frames of this specification: a moon, then a planet
AppSelectionDraws == {[takeMoon |-> FALSE, keepPrev |-> FALSE, pick |-> 700, dir |-> <<1, 0, 0>>, extra |-> 90]}

AppArrivalDraws == {[longHold |-> FALSE, longTurns |-> FALSE]}

\* a frame of the roam controller under the App's draws
AppTick ==
    \E f \in {g \in FrameDraws : g.turn}, arr \in AppArrivalDraws : \E sel \in DrawsOf(f.dt, AppSelectionDraws) :
        FreeRoamFrame(f.dt, sel @@ arr @@ FrameRest(f))

\* the user of this specification lets a glide settle, and the start-up guard
\* of the experienceMode effect expire, before the next gesture
UserReady == cameraMode = NULL /\ ~focusReleaseBlocked

Next ==
    \/ UserReady /\ \E name \in {"Sun", "Earth"} : jumpTo(name)
    \/ UserReady /\ jumpToMoon("Earth/Moon")
    \/ UserReady /\ goHome
    \/ UserReady /\ returnToSpaceFromMap
    \/ UserReady /\ ToggleFreeExplore
    \/ UserReady /\ ToggleFreeRoam
    \/ UserReady /\ onPointerMissed
    \/ UserReady /\ \E d \in DollyDistances : OrbitControlsDolly(d)
    \/ UserReady /\ \E code \in KeyCodes : handleKeyDown(code)
    \/ UserReady /\ \E code \in KeyCodes : handleKeyUp(code)
    \/ \E m \in {"fun", "scientific"} : setExperienceMode(m)
    \/ MapLockRelease
    \/ FocusReleaseBlockExpires
    \/ PlanetFrame
    \/ CameraPilotFrames
    \/ SceneFrame
    \/ AppTick

Spec == Init /\ [][Next]_vars

\* ------------------------------------------------------------------------
\* One auto-roam session: Free Roam Mode is switched on and stays on
\* ------------------------------------------------------------------------
\* the canvas as mounted for either experience mode
RoamInit == (\E m \in {"fun", "scientific"} : Mounted(m)) /\ gestures = 0 /\ callArgs = NoCall /\ callResult = NoTarget

EnableFreeRoam == ~autoRoamEnabled /\ ToggleFreeRoam

RoamNext ==
    \/ EnableFreeRoam
    \/ PlanetFrame
    \/ Tick

RoamSpec == RoamInit /\ [][RoamNext]_vars

\* ------------------------------------------------------------------------
\* The tour: one session under the App's selection draws, in a tab that
\* keeps coming back to the foreground
\* ------------------------------------------------------------------------
TourTick ==
    \E f \in FrameDraws, arr \in ArrivalDraws : \E sel \in DrawsOf(f.dt, AppSelectionDraws) :
        FreeRoamFrame(f.dt, sel @@ arr @@ FrameRest(f))

\* a frame of a visible tab: the render loop (frameloop 'always') runs one
\* on every animation frame
TourVisibleTick ==
    \E f \in {g \in FrameDraws : g.turn}, arr \in ArrivalDraws : \E sel \in DrawsOf(f.dt, AppSelectionDraws) :
        FreeRoamFrame(f.dt, sel @@ arr @@ FrameRest(f))

TourNext ==
    \/ EnableFreeRoam
    \/ PlanetFrame
    \/ TourTick

\* whether the auto-roam tick of these draws changes the state
TickChanges(dt, rnd) ==
    \E t \in {AutoRoamTick(dt, rnd)} :
        \/ t.chose
        \/ dt # lastDelta
        \/ <<t.autoState, t.focus, t.waypoint, t.camera, t.target, t.emit, t.status>> # <<autoState, focusPos, waypointPos, cameraPos, controlsTarget, autoStatusEmit, autoRoamStatus>>
        \/ t.called /\ <<t.args, t.result>> # <<callArgs, callResult>>
        \/ Logged(statusLog, dt, t.delivered) # statusLog

\* ENABLED <<TourVisibleTick>>_vars, computed from the guard of FreeRoamFrame
TourVisibleTickEnabled ==
    /\ autoRoamEnabled
    /\ selections < MaxSelections
    /\ \E f \in {g \in FrameDraws : g.turn}, arr \in ArrivalDraws : \E sel \in DrawsOf(f.dt, AppSelectionDraws) :
            TickChanges(f.dt, sel @@ arr @@ FrameRest(f))

\* a step of TourNext is a frame of a visible tab exactly when it leaves the
\* frame time of one in lastDelta
TourVisibleTickTaken == lastDelta' \in {g.dt : g \in {h \in FrameDraws : h.turn}}

\* WF_vars(TourVisibleTick) written out: the frame of a visible tab is not
\* enabled for ever without being taken
TourFairness == []<>(~TourVisibleTickEnabled) \/ []<><<TourVisibleTickTaken>>_vars

TourSpec == RoamInit /\ [][TourNext]_vars /\ TourFairness


\* ------------------------------------------------------------------------
\* chooseAutoRoamTarget on its own: the options and the draws of one call
\* ------------------------------------------------------------------------
\* the options objects the frame callback can pass
ChooseOptionSets == [preferInner : BOOLEAN, previousType : {NULL, "sun", "planet", "moon", "asteroid"}, preferredMoonParent : {NULL, "Earth"}]

\* the draws of one call
ChooseDraws == [takeMoon : BOOLEAN, keepPrev : BOOLEAN, pick : {50, 400, 700, 950}, dir : UnitDirs, extra : Extras]

ChooseInit == (\E m \in {"fun", "scientific"} : Mounted(m)) /\ gestures = 0 /\ callArgs \in ChooseOptionSets /\ callResult = NoTarget

\* one call from the mounted scene
ChooseCall ==
    /\ \E rnd \in ChooseDraws : callResult' = chooseAutoRoamTarget(cameraPos, callArgs, bodyRefs, earthPos, scientificMode, rnd @@ FixedDraws)
    /\ UNCHANGED <<experienceMode, bodyRefs, ephemeris, focusReleaseBlocked, appVars, sceneVars, lastDelta, gestures, callArgs, ownVars>>

ChooseNext == ChooseCall

ChooseSpec == ChooseInit /\ [][ChooseNext]_vars



\* ------------------------------------------------------------------------
\* One Moon under the frames of the scene and a user who follows and
\* leaves Earth's Moon
\* ------------------------------------------------------------------------
\* moons of src/src/data.js: name and orbitPeriod
MoonConfigs == {[key |-> "Earth/Moon", orbitPeriod |-> 7480], [key |-> "Neptune/Triton", orbitPeriod |-> 0 - 1609], [key |-> "Mars/Phobos", orbitPeriod |-> 87]}

\* values of the prop orbitInclinationRad: the configured 0, 5.145 and 156.9
\* degrees, and values outside [0, pi]
InclinationInputs == {Finite(0), Finite(DegToRad(5145)), Finite(DegToRad(156900)), Finite(1580), Finite(0 - 500), Finite(0 - 2000), Finite(4000), Finite(9000), NaN, Infinity}

\* ms between two frames
MoonDeltas == {16, 100}

MoonInit ==
    /\ \E m \in {"fun", "scientific"}, cfg \in MoonConfigs, incl \in InclinationInputs :
           StateIs([MountValues(m) EXCEPT !.moonPivot = [key |-> cfg.key, orbitPeriod |-> cfg.orbitPeriod, orbitInclinationRad |-> incl, rotationY |-> 0, frames |-> 0]])
    /\ gestures = 0 /\ callArgs = NoCall /\ callResult = NoTarget

MoonNext ==
    \/ \E delta \in MoonDeltas : MoonFrame(delta)
    \/ jumpToMoon("Earth/Moon")
    \/ jumpTo("Earth")

MoonSpec == MoonInit /\ [][MoonNext]_vars


\* ------------------------------------------------------------------------
\* The pose solver on its own: one snapshot, one clock tick, what
\* astronomy-engine does, and up to MaxPoseCalls calls
\* ------------------------------------------------------------------------
\* horizonsSnapshot: null, or bodies with entries for some of the names
Snapshots ==
    {[given |-> FALSE, bodies |-> [Earth |-> NoEntry, Jupiter |-> NoEntry, Moon |-> NoEntry, Io |-> NoEntry]]}
    \cup {[given |-> TRUE, bodies |-> b] :
            b \in [Earth : {NoEntry, NullVector, Vector(Finite(1), Finite(1)), Vector(NaN, Finite(1)), Vector(Finite(1), Infinity)},
                   Jupiter : {NoEntry, Vector(Finite(0 - 1), Finite(0))},
                   Moon : {NoEntry, Vector(Finite(0), Finite(1)), Vector(Finite(1), NaN)},
                   Io : {NoEntry}]}

\* HelioVector per planet, GeoMoon and JupiterMoons (the vector of Io)
AstroOutcomes ==
    [helio : [Earth : {Returns(Finite(1), Finite(0)), Throws},
              Jupiter : {Returns(Finite(0), Finite(1)), Returns(NaN, Finite(1)), Throws}],
     geoMoon : {Returns(Finite(1), Finite(1)), Throws},
     jupiterMoons : {Returns(Finite(0 - 1), Finite(1)), Returns(Finite(1), NaN)}]

\* Math.random() * Math.PI * 2
RandomAngles == {333, 777}

\* Date.now() / 86_400_000
SolverDays == 20758250

\* calls of the solver in one run
MaxPoseCalls == 2

PoseInit ==
    /\ \E m \in {"fun", "scientific"}, snapshot \in Snapshots, astro \in AstroOutcomes :
           StateIs([MountValues(m) EXCEPT !.poseCall = [snapshot |-> snapshot, astro |-> astro, days |-> SolverDays, calls |-> <<>>]])
    /\ gestures = 0 /\ callArgs = NoCall /\ callResult = NoTarget

\* the useMemo callbacks of the App: startupOrbitAngles and moonStartupAngles
SolvePose ==
    /\ Len(poseCall.calls) < MaxPoseCalls
    /\ \E rnd \in [Earth : RandomAngles, Jupiter : RandomAngles] :
           poseCall' = [poseCall EXCEPT !.calls = Append(@,
               [orbit |-> getStartupOrbitAngles(SolverPlanets, poseCall.snapshot, poseCall.astro, rnd),
                moons |-> IF scientificMode THEN getScientificMoonOrbitState(SolverMoons, poseCall.snapshot, poseCall.astro, poseCall.days)
                          ELSE getStartupMoonOrbitAngles(SolverMoons, poseCall.days)])]
    /\ lastDelta' = 0
    /\ UNCHANGED <<experienceMode, bodyRefs, ephemeris, focusReleaseBlocked, appVars, sceneVars, gestures, callVars, moonPivot, statusLog>>

PoseNext == SolvePose

PoseSpec == PoseInit /\ [][PoseNext]_vars

\* ------------------------------------------------------------------------
\* hashPhase on its own: one seed and up to MaxHashCalls calls
\* ------------------------------------------------------------------------
\* the characters of the seeds besides those of the solver: a letter, the
\* separator, a code above 255 and the greatest code of a UTF-16 unit
SeedChars == {"a", "/", "Omega", "uFFFF"}

\* the longest seed made of SeedChars
MaxSeedLen == 3

RECURSIVE SeedsOfLen(_)
SeedsOfLen(n) == IF n = 0 THEN {<<>>} ELSE {Append(s, c) : s \in SeedsOfLen(n - 1), c \in SeedChars}

\* the seeds the solver passes, key, `${key}:phase` and `${key}:node`, and every seed of SeedChars up to MaxSeedLen long
HashSeeds ==
    {KeyChars(key) \o suffix : key \in {"Earth/Moon", "Jupiter/Io"}, suffix \in {<<>>, <<":", "p", "h", "a", "s", "e">>, <<":", "n", "o", "d", "e">>}}
    \cup UNION {SeedsOfLen(n) : n \in 0..MaxSeedLen}

\* calls of hashPhase in one run
MaxHashCalls == 2

HashInit ==
    /\ \E m \in {"fun", "scientific"}, seed \in HashSeeds : StateIs([MountValues(m) EXCEPT !.poseCall = HashCalls(seed)])
    /\ gestures = 0 /\ callArgs = NoCall /\ callResult = NoTarget

\* hashPhase(seed)
HashCall ==
    /\ Len(poseCall.hashes) < MaxHashCalls
    /\ poseCall' = [poseCall EXCEPT !.hashes = Append(@, HashIndex(poseCall.seed))]
    /\ lastDelta' = 0
    /\ UNCHANGED <<experienceMode, bodyRefs, ephemeris, focusReleaseBlocked, appVars, sceneVars, gestures, callVars, moonPivot, statusLog>>

HashNext == HashCall

HashSpec == HashInit /\ [][HashNext]_vars

\* ------------------------------------------------------------------------
\* The status callback of an auto-roam session at a steady frame rate
\* ------------------------------------------------------------------------
\* Frames 17, 100 and 250 ms apart.  In travel the smoothed speed tends to
\* clamp(targetDistance * 0.11, 22, 32000) * clamp(autoRoamSpeed, 0.1, 1), so
\* a frame covers 0.11 * 0.2 * dt / 1000 of the way; the orbit is left out.
StatusFrameDraws == {[dt |-> 17, travelShare |-> 4, turn |-> FALSE], [dt |-> 100, travelShare |-> 22, turn |-> FALSE], [dt |-> 250, travelShare |-> 55, turn |-> FALSE]}

\* the draws of a selection: the Sun or a place in the Kuiper belt
StatusSelectionDraws == [takeMoon : {FALSE}, keepPrev : {FALSE}, pick : {50, 975}, dir : {<<1, 0, 0>>}, extra : {90}]

\* a frame of the session, as long after the previous frame as that one was after its own
StatusTick ==
    \E f \in StatusFrameDraws, arr \in ArrivalDraws : \E sel \in DrawsOf(f.dt, StatusSelectionDraws) :
        /\ lastDelta \in {0, f.dt}
        /\ FreeRoamFrame(f.dt, sel @@ arr @@ FrameRest(f))

StatusNext ==
    \/ EnableFreeRoam
    \/ StatusTick

StatusSpec == RoamInit /\ [][StatusNext]_vars

\* ------------------------------------------------------------------------
\* An auto-roam session whose draws reach the remote fields
\* ------------------------------------------------------------------------
\* the draws of a selection: the Sun, the far end of the inner weights, a
\* place in the Kuiper belt or in the Oort cloud
RemoteSelectionDraws == [takeMoon : {FALSE}, keepPrev : BOOLEAN, pick : {50, 900, 975, 995}, dir : {<<1, 0, 0>>}, extra : {90}]

RemoteTick ==
    \E f \in FrameDraws, arr \in AppArrivalDraws : \E sel \in DrawsOf(f.dt, RemoteSelectionDraws) :
        FreeRoamFrame(f.dt, sel @@ arr @@ FrameRest(f))

RemoteNext ==
    \/ EnableFreeRoam
    \/ RemoteTick

RemoteSpec == RoamInit /\ [][RemoteNext]_vars

\* ------------------------------------------------------------------------
\* Manual flight under keys and scripted input
\* ------------------------------------------------------------------------
ScriptInput(forward, right, up, boost, yaw, pitch, durationMs) ==
    [forward |-> forward, right |-> right, up |-> up, boost |-> boost, yaw |-> yaw, pitch |-> pitch, durationMs |-> durationMs]

\* arguments of simulate(): ahead for 40 ms; axes and boost beyond their
\* ranges for 20 ms; upward with too small a boost and no time; a turn with
\* nothing else given; ahead with a boost and a duration that are not finite
ScriptInputs ==
    {ScriptInput(Finite(1000), Finite(0), Finite(0), Finite(1000), Finite(0), Finite(0), Finite(40)),
     ScriptInput(Finite(2500), Finite(0 - 3000), Finite(0), Finite(20000), Finite(0), Finite(0), Finite(20)),
     ScriptInput(NaN, Finite(0), Finite(1000), Finite(100), Finite(0), Finite(0), Finite(0)),
     ScriptInput(NaN, NaN, NaN, NaN, Finite(1), Finite(1), NaN),
     ScriptInput(Finite(1000), Finite(0), Finite(0), Infinity, Finite(0), Finite(0), Infinity)}

\* ms between two frames of manual flight
FlyDeltas == {16, 32}

\* the draws of a frame that draws nothing
NoDraws == NoSelectionDraw @@ [longHold |-> FALSE, longTurns |-> FALSE] @@ FrameRest([travelShare |-> 0, turn |-> FALSE])

\* a frame while Free Explore is enabled
FlyFrame == freeRoamEnabled /\ \E dt \in FlyDeltas : FreeRoamFrame(dt, NoDraws)

FlyNext ==
    \/ ToggleFreeExplore
    \/ \E input \in ScriptInputs : applyScriptedInput(input)
    \/ clearScriptedInput
    \/ \E code \in KeyCodes : handleKeyDown(code)
    \/ \E code \in KeyCodes : handleKeyUp(code)
    \/ FlyFrame
    \/ \E dt \in FlyDeltas : IdleRoamFrame(dt)

FlySpec == RoamInit /\ [][FlyNext]_vars

\* ------------------------------------------------------------------------
\* An auto-roam session over a registry that lacks bodies
\* ------------------------------------------------------------------------
\* bodyRefs as the controller may find it: no mesh registered, the Sun's mesh
\* missing, every mesh registered
AcquireRegistries == {<<>>, <<"Earth", "Earth/Moon">>, BodyKeys}

\* the draws of a selection: the Sun or a planet
AcquireSelectionDraws == [takeMoon : {FALSE}, keepPrev : {TRUE}, pick : {50, 400}, dir : {<<1, 0, 0>>}, extra : {90}]

\* simulate() with a push ahead that lasts for two frames
AcquireInputs == {ScriptInput(Finite(1000), Finite(0), Finite(0), Finite(1000), Finite(0), Finite(0), Finite(3000))}

AcquireInit ==
    /\ \E m \in {"fun", "scientific"}, keys \in AcquireRegistries : StateIs([MountValues(m) EXCEPT !.bodyRefs = keys])
    /\ gestures = 0 /\ callArgs = NoCall /\ callResult = NoTarget

\* an orbit that finds no next destination goes on; the model follows it up
\* to this many thousandths of a turn
MaxOrbitTurns == 2000

AcquireTick ==
    /\ autoState.orbitTurnsProgress <= MaxOrbitTurns
    /\ \E f \in FrameDraws, arr \in AppArrivalDraws : \E sel \in DrawsOf(f.dt, AcquireSelectionDraws) :
           FreeRoamFrame(f.dt, sel @@ arr @@ FrameRest(f))

AcquireNext ==
    \/ EnableFreeRoam
    \/ \E input \in AcquireInputs : applyScriptedInput(input)
    \/ AcquireTick

AcquireSpec == AcquireInit /\ [][AcquireNext]_vars

\* ------------------------------------------------------------------------
\* Both pilots of the roam controller under keys and scripted input
\* ------------------------------------------------------------------------
\* the draws of a frame dt ms after the previous one
DetachDraws(dt) ==
    {sel @@ arr @@ FrameRest(f) : f \in {g \in FrameDraws : g.dt = dt}, arr \in AppArrivalDraws, sel \in DrawsOf(dt, AppSelectionDraws)}

DetachFrame == \E f \in FrameDraws : \E rnd \in DetachDraws(f.dt) : FreeRoamFrame(f.dt, rnd)

DetachNext ==
    \/ ToggleFreeExplore
    \/ ToggleFreeRoam
    \/ \E code \in KeyCodes : handleKeyDown(code)
    \/ \E code \in KeyCodes : handleKeyUp(code)
    \/ \E input \in AcquireInputs : applyScriptedInput(input)
    \/ DetachFrame

DetachSpec == RoamInit /\ [][DetachNext]_vars

\* ------------------------------------------------------------------------
\* The ephemeris handler under a run of requests
\* ------------------------------------------------------------------------
\* requests the model follows
MaxRequests == 3

\* ms between a response and the next request
RequestWaits == {1000, 598000, 600000}

\* ms a refresh takes
RefreshDurations == {0, 3000}

\* the first failed targets never answer within three attempts (they would at
\* the fourth or the fifth), the others after goodFailures failures
UpstreamPlan(failed, badFailures, goodFailures) == [i \in 1..TargetCount |-> IF i <= failed THEN badFailures ELSE goodFailures]

\* every body, ten bodies, nine bodies, no body
UpstreamPlans == {UpstreamPlan(failed, bad, good) : failed \in {0, TargetCount - 10, TargetCount - 9, TargetCount}, bad \in {3, 4}, good \in {0, 2}}

\* a request arrives and is answered
handler ==
    /\ ephemeris.requests < MaxRequests
    /\ \E method \in {"GET", "POST"}, wait \in RequestWaits, plan \in UpstreamPlans, duration \in RefreshDurations :
           ephemeris' = Handled(ephemeris, method, ephemeris.now + wait, plan, duration)
    /\ lastDelta' = 0
    /\ UNCHANGED <<experienceMode, bodyRefs, focusReleaseBlocked, appVars, sceneVars, gestures, callVars, ownVars>>

EphemerisNext == handler

EphemerisSpec == RoamInit /\ [][EphemerisNext]_vars

\* ------------------------------------------------------------------------
\* The camera pilot frame by frame: focus requests, the wheel, the timer
\* ------------------------------------------------------------------------
\* the bodies the planet selector offers; Mars has not registered its mesh
PilotNames == {"Sun", "Earth", "Mars"}

\* camera-to-target distances of the wheel, within and beyond the release distances
PilotDollyDistances == {30 * FP, 500 * FP}

\* the next frame neither moves the camera or the look target nor fires a callback
PilotAtRest ==
    \E q \in {CameraPilotStep(PilotState, FrameGoal, cameraMode, followSelected)} :
        q.cam = cameraPos /\ q.tgt = controlsTarget /\ ~q.onSettled /\ ~q.onReleaseFollow

PilotNext ==
    \/ PilotAtRest /\ \E name \in PilotNames : jumpTo(name)
    \/ PilotAtRest /\ jumpToMoon("Earth/Moon")
    \/ PilotAtRest /\ goHome
    \/ PilotAtRest /\ \E d \in PilotDollyDistances : OrbitControlsDolly(d)
    \/ FocusReleaseBlockExpires
    \/ CameraPilotFrame

PilotSpec == RoamInit /\ [][PilotNext]_vars

\* ------------------------------------------------------------------------
\* Properties of the auto-roam pilot
\* ------------------------------------------------------------------------
\* (a step is a tick of the auto-roam branch exactly when it leaves
\* lastDelta > 0, the ms the tick found gone since the previous one)

\* C1: a tick that finds the pilot in orbit with the hold not lapsed or the
\* turn target not reached chooses no destination and leaves the mode
\* 'orbit'; the orbit ends only on a tick where both conditions hold.
C1_DepartNeedsBoth ==
    [][(lastDelta' > 0 /\ autoState.hasTarget /\ autoState.mode = "orbit"
          /\ ~(autoState.holdUntilMs - lastDelta' <= 0 /\ autoState.orbitTurnsProgress >= autoState.orbitTurnsTarget))
         => (autoState'.mode = "orbit" /\ autoState'.hasTarget /\ selections' = selections /\ focusPos' = focusPos /\ waypointPos' = waypointPos)]_vars

\* a tick has left the pilot in orbit with the turn target reached while the hold still runs
C1_TurnsBeforeHold ==
    lastDelta > 0 /\ autoState.hasTarget /\ autoState.mode = "orbit" /\ autoState.holdUntilMs > 0
        /\ autoState.orbitTurnsProgress >= autoState.orbitTurnsTarget /\ autoState.orbitTurnsProgress > 0

C6_ArrivalEntersOrbit ==
    [][(lastDelta' > 0 /\ autoState'.hasTarget /\ (selections' # selections \/ autoState.mode = "travel"))
         => /\ (autoState'.mode = "orbit") <=> (Dist(waypointPos', cameraPos) <= autoState'.arrivalDistance)
            /\ autoState'.mode = "orbit" =>
                 /\ IF autoState'.targetType \in {"moon", "planet"}
                    THEN autoState'.holdUntilMs \in 10000..22000 /\ autoState'.orbitTurnsTarget \in 1350..3350
                    ELSE autoState'.holdUntilMs \in 4000..9000
                         /\ autoState'.orbitTurnsTarget \in (IF autoState'.targetType = "sun" THEN 750..1750 ELSE 450..1100)
                 /\ autoState'.orbitTurnsProgress = 0
                 /\ autoState'.orbitPrevAzimuth = Azimuth(VSub(cameraPos, focusPos'))]_vars

\* a tick has just taken the pilot into orbit about a planet or moon
C6_JustArrived ==
    lastDelta > 0 /\ autoState.hasTarget /\ autoState.mode = "orbit" /\ autoState.targetType \in {"moon", "planet"}
        /\ autoState.holdUntilMs >= 10000 /\ autoState.orbitTurnsProgress = 0 /\ autoState.orbitPrevAzimuth # NoAzimuth

\* C7 as stated: a tick that finds the pilot traveling to a moon with the
\* camera within the arrival distance of the focus point flips the mode to
\* 'orbit' and starts the turn progress at 0.
C7_ArrivalByFocus ==
    [][(lastDelta' > 0 /\ selections' = selections /\ autoState.hasTarget /\ autoState.mode = "travel" /\ autoState.targetType = "moon"
          /\ Dist(focusPos, cameraPos) <= autoState.arrivalDistance)
         => (autoState'.mode = "orbit" /\ autoState'.orbitTurnsProgress = 0)]_vars

\* C7 amended: a tick that finds the pilot traveling to a moon flips the
\* mode to 'orbit', with the turn progress at 0, exactly when the camera is
\* within the arrival distance of the waypoint (the stand-off point beside
\* the moon), however close it is to the focus point.
C7_ArrivalByWaypoint ==
    [][(lastDelta' > 0 /\ selections' = selections /\ autoState.hasTarget /\ autoState.mode = "travel" /\ autoState.targetType = "moon")
         => /\ (autoState'.mode = "orbit") <=> (Dist(waypointPos, cameraPos) <= autoState.arrivalDistance)
            /\ autoState'.mode = "orbit" => autoState'.orbitTurnsProgress = 0]_vars

\* a tick has taken the pilot into orbit about a moon it had been traveling to
C7_MoonArrival ==
    lastDelta > 0 /\ autoState.hasTarget /\ autoState.mode = "orbit" /\ autoState.targetType = "moon" /\ autoState.travelStartedMs < 0
        /\ autoState.holdUntilMs >= 10000 /\ autoState.orbitTurnsProgress = 0 /\ Dist(waypointPos, cameraPos) <= autoState.arrivalDistance

\* C8: a tick that finds a travel phase older than the travel timeout (one
\* value per experience mode whatever the target, the scientific one longer)
\* asks for a destination with preferInner = true and, given one, takes its
\* waypoint and focus and starts a travel phase with travelStartedMs = now.
C8_TimeoutReselects ==
    [][(lastDelta' > 0 /\ autoState.hasTarget /\ autoState.mode = "travel" /\ lastDelta' - autoState.travelStartedMs > TravelTimeoutMs(scientificMode))
         => /\ TravelTimeoutMs(TRUE) > TravelTimeoutMs(FALSE)
            /\ callArgs'.preferInner /\ callArgs'.previousType = autoState.targetType
            /\ callResult'.ok => /\ selections' = selections + 1
                                 /\ autoState'.hasTarget /\ autoState'.travelStartedMs = 0 /\ autoState'.orbitTurnsProgress = 0
                                 /\ waypointPos' = callResult'.waypoint /\ focusPos' = callResult'.focus
                                 /\ autoState'.focusKey = callResult'.focusKey
                                 /\ autoState'.forceInnerNext = (callResult'.type \in {"oort", "kuiper"})]_vars

\* a tick has replaced the destination of a travel phase that had timed out
C8_TimedOutReplaced ==
    lastDelta > TravelTimeoutMs(FALSE) /\ selections = 2 /\ callArgs.preferInner /\ callResult.ok /\ autoState.hasTarget
        /\ autoState.travelStartedMs = 0 /\ waypointPos = callResult.waypoint

C10_WaypointProjectedOut ==
    callResult.ok =>
        LET minEarthDistance == WaypointMinEarthDistance(BodyRadius("Earth", scientificMode))
            toCandidate == VSub(callResult.candidate, earthPos)
            away == IF ~Tiny(toCandidate) THEN toCandidate ELSE IF ~Tiny(VSub(cameraPos, earthPos)) THEN VSub(cameraPos, earthPos) ELSE <<5, 1, 2>>
        IN  /\ Dist(callResult.waypoint, earthPos) >= minEarthDistance
            /\ IF Dist(callResult.candidate, earthPos) < minEarthDistance
               THEN Dist(callResult.waypoint, AlongFrom(earthPos, away, minEarthDistance + (6 * FP) \div 100)) <= FP \div 10
               ELSE callResult.waypoint = callResult.candidate

\* ------------------------------------------------------------------------
\* Properties of the App's pilot flags
\* ------------------------------------------------------------------------
\* C3: at most one pilot drives the camera: the focus pilot (cameraMode
\* 'focus' or 'home', or followSelected with a selected target) is never
\* active together with free explore or free roam, and those two are never
\* enabled together.
C3_OnePilot ==
    /\ ~(freeRoamEnabled /\ autoRoamEnabled)
    /\ (cameraMode # NULL \/ (followSelected /\ selectedTargetKey # NULL)) => ~(freeRoamEnabled \/ autoRoamEnabled)

\* C4 as stated: once the auto-roam pilot has been disabled and enabled
\* again, the first status it emits has mode 'acquiring'.
C4_FirstStatusAcquiring ==
    [][(sessions >= 2 /\ autoRoamEnabled /\ autoRoamStatus = NoStatus /\ autoRoamStatus' # NoStatus)
         => autoRoamStatus'.mode = "acquiring"]_vars

\* C4 amended: once the auto-roam pilot has been disabled and enabled again,
\* the first status it emits comes from the first tick of the new session,
\* which has chosen a destination: the status has mode 'travel' (or 'orbit'
\* when the camera is within the arrival distance already) and names the
\* new target, never 'acquiring'.
C4_FirstStatusNewTarget ==
    [][(sessions >= 2 /\ autoRoamEnabled /\ autoRoamStatus = NoStatus /\ autoRoamStatus' # NoStatus)
         => (/\ selections = 0 /\ selections' = 1
             /\ autoState'.hasTarget /\ autoState'.travelStartedMs = 0
             /\ autoRoamStatus'.mode \in {"travel", "orbit"} /\ autoRoamStatus'.mode = autoState'.mode
             /\ autoRoamStatus'.focusKey = autoState'.focusKey /\ autoRoamStatus'.targetType = autoState'.targetType)]_vars

\* the first tick of a second session has emitted its status
C4_ReEnabledStatus ==
    sessions >= 2 /\ autoRoamEnabled /\ lastDelta > 0 /\ selections = 1 /\ autoState.travelStartedMs = 0 /\ autoRoamStatus # NoStatus

\* C5: whenever the auto-roam pilot is disabled its in-flight state is
\* dropped (no target, turn progress 0, no azimuth baseline), and the first
\* tick after it is enabled chooses a new destination and starts its travel
\* phase instead of resuming the previous phase.
C5_DisableDropsFlight ==
    [][/\ ~autoRoamEnabled' => (~autoState'.hasTarget /\ autoState'.orbitTurnsProgress = 0 /\ autoState'.orbitPrevAzimuth = NoAzimuth)
       /\ (autoRoamEnabled /\ selections = 0 /\ lastDelta' > 0)
            => (selections' = 1 /\ autoState'.hasTarget /\ autoState'.travelStartedMs = 0 /\ autoState'.orbitTurnsProgress = 0
                /\ focusPos' = BodyPos(autoState'.focusKey, earthPos', scientificMode'))]_vars

\* the pilot is disabled after a session that had taken a destination and circled it
C5_DroppedInFlight ==
    ~autoRoamEnabled /\ sessions >= 1 /\ autoState.mode = "orbit" /\ autoState.focusKey # InitialAutoState.focusKey /\ ~autoState.hasTarget

\* ------------------------------------------------------------------------
\* Properties of the Moon component
\* ------------------------------------------------------------------------
\* C11 as stated: on every Moon frame the orbit angle decreases exactly when
\* the orbit period is < 0 or the folded inclination is > 90 degrees.
C11_AngleFallsIffRetrograde ==
    [][moonPivot'.frames = moonPivot.frames + 1 =>
        ((moonPivot'.rotationY < moonPivot.rotationY) <=> (moonPivot.orbitPeriod < 0 \/ RawInclinationDeg(moonPivot.orbitInclinationRad) > 90000))]_vars

\* C11 amended: the sense of a Moon frame is that of the flag (orbit period
\* < 0 or folded inclination > 90 degrees): the angle decreases on a frame
\* of a retrograde moon and increases on a frame of any other, unless the
\* frame is frozen (freezeAllMotion or freezeOrbit), which leaves the angle.
C11_AngleFollowsFlag ==
    [][moonPivot'.frames = moonPivot.frames + 1 =>
        IF MoonFrozen(moonPivot.key) THEN moonPivot'.rotationY = moonPivot.rotationY
        ELSE IF moonPivot.orbitPeriod < 0 \/ RawInclinationDeg(moonPivot.orbitInclinationRad) > 90000 THEN moonPivot'.rotationY < moonPivot.rotationY
        ELSE moonPivot'.rotationY > moonPivot.rotationY]_vars

\* a moon with a positive period, retrograde by its inclination, has turned backwards
C11_TurnedBackByInclination == moonPivot.frames > 0 /\ moonPivot.orbitPeriod > 0 /\ moonPivot.rotationY < 0

\* C12: whatever the prop orbitInclinationRad, the folded inclination is in
\* [0, 180] degrees, the tilt the plane is drawn with is 180 degrees minus
\* the folded inclination where that is > 90 degrees and the folded
\* inclination otherwise, and the tilt is in [0, 90] degrees.
C12_TiltFolded ==
    LET folded == RawInclinationDeg(moonPivot.orbitInclinationRad)
        tilt == EffectiveInclinationRad(folded)
    IN  /\ folded >= 0 /\ folded <= 180000
        /\ tilt = DegToRad(IF folded > 90000 THEN 180000 - folded ELSE folded)
        /\ tilt >= 0 /\ tilt <= DegToRad(90000)

\* a Moon whose inclination prop is beyond a full turn and folds to more than 90 degrees
C12_FoldedFromBeyondTurn ==
    /\ moonPivot.frames > 0
    /\ IsFinite(moonPivot.orbitInclinationRad) /\ RadToDeg(moonPivot.orbitInclinationRad.v) > 360000
    /\ RawInclinationDeg(moonPivot.orbitInclinationRad) > 90000

\* ------------------------------------------------------------------------
\* Properties of the orbital pose solver
\* ------------------------------------------------------------------------
\* C13: the angle solved for a planet whose snapshot entry has a vector is
\* atan2(vector.z, vector.x), whatever the analytic model does and whatever
\* happens for the other planets.
C13_VectorDecidesAngle ==
    \A i \in 1..Len(poseCall.calls), j \in 1..Len(SolverPlanets) :
        HasVector(poseCall.snapshot, SolverPlanets[j]) =>
            poseCall.calls[i].orbit.state[SolverPlanets[j]] = Atan2(poseCall.snapshot.bodies[SolverPlanets[j]].z, poseCall.snapshot.bodies[SolverPlanets[j]].x)

\* C14: two calls with the same snapshot at the same clock tick return the
\* same angle for every planet and every moon whose snapshot entry has a vector.
C14_SameAnglesTwice ==
    Len(poseCall.calls) = 2 =>
        /\ \A j \in 1..Len(SolverPlanets) :
               HasVector(poseCall.snapshot, SolverPlanets[j]) =>
                   poseCall.calls[1].orbit.state[SolverPlanets[j]] = poseCall.calls[2].orbit.state[SolverPlanets[j]]
        /\ \A j \in 1..Len(SolverMoons) :
               (HasVector(poseCall.snapshot, SolverMoons[j].name) /\ ~poseCall.calls[1].moons.threw /\ ~poseCall.calls[2].moons.threw) =>
                   poseCall.calls[1].moons.state[SolverMoons[j].key].angle = poseCall.calls[2].moons.state[SolverMoons[j].key].angle

\* C15: no call of the solver throws, whatever the snapshot and whatever
\* astronomy-engine does, and every call returns an angle for every planet
\* and every moon.
C15_SolverNeverThrows ==
    \A i \in 1..Len(poseCall.calls) :
        /\ ~poseCall.calls[i].orbit.threw
        /\ ~poseCall.calls[i].moons.threw
        /\ DOMAIN poseCall.calls[i].orbit.state = {SolverPlanets[j] : j \in 1..Len(SolverPlanets)}
        /\ DOMAIN poseCall.calls[i].moons.state = {SolverMoons[j].key : j \in 1..Len(SolverMoons)}

\* C16: the angle returned for a planet or a moon whose snapshot entry has no
\* vector, or one with a non-finite x or z, is finite and is not the atan2
\* of that entry.
C16_InvalidVectorUnused ==
    \A i \in 1..Len(poseCall.calls) :
        /\ \A j \in 1..Len(SolverPlanets) :
               LET e == poseCall.snapshot.bodies[SolverPlanets[j]]
                   angle == poseCall.calls[i].orbit.state[SolverPlanets[j]]
               IN  (poseCall.snapshot.given /\ e.entry /\ (~e.vector \/ ~IsFinite(e.x) \/ ~IsFinite(e.z))) =>
                       (IsFinite(angle) /\ (e.vector => angle # Atan2(e.z, e.x)))
        /\ \A j \in 1..Len(SolverMoons) :
               LET e == poseCall.snapshot.bodies[SolverMoons[j].name]
                   angle == poseCall.calls[i].moons.state[SolverMoons[j].key].angle
               IN  (scientificMode /\ ~poseCall.calls[i].moons.threw /\ poseCall.snapshot.given /\ e.entry /\ (~e.vector \/ ~IsFinite(e.x) \/ ~IsFinite(e.z))) =>
                       IsFinite(angle)

\* ------------------------------------------------------------------------
\* Properties of the camera pilot
\* ------------------------------------------------------------------------
\* (a step of PilotSpec is a CameraPilot frame exactly when it is neither a
\* gesture nor the expiry of the release block)
PilotTicked == gestures' = gestures /\ focusReleaseBlocked' = focusReleaseBlocked /\ experienceMode' = experienceMode

\* the selected key has no entry in bodyRefs
Unresolved == selectedTargetKey # NULL /\ ~InKeys(bodyRefs, selectedTargetKey)

\* the frame called onReleaseFollow: releasedRef was raised, and survives
\* unless the App's setFollowSelected(false) re-ran the reset effect
ReleaseFired == (~releasedRef /\ releasedRef') \/ (followSelected /\ ~followSelected')

\* the frame called onSettled: the App's setCameraMode(null)
SettleFired == cameraMode # NULL /\ cameraMode' = NULL

\* C17: a frame of the pilot in focus travel or in tracking, with a selected
\* key that bodyRefs does not hold, leaves the camera position, the look
\* target, settledRef, releasedRef and the camera mode as they were and
\* calls neither onSettled nor onReleaseFollow
C17_UnresolvedTickIdle ==
    [][(PilotTicked /\ Unresolved /\ cameraMode \in {"focus", NULL})
        => (/\ UNCHANGED <<cameraPos, controlsTarget, settledRef, releasedRef, cameraMode, followSelected>>
            /\ ~SettleFired /\ ~ReleaseFired)]_vars

\* a focus on Mars was requested and frames run while it is unregistered
C17_FocusOnUnregistered == cameraMode = "focus" /\ followSelected /\ Unresolved /\ gestures > 0 /\ ~FrameGoal.hit

\* C18: a frame changes the camera mode only by settling, from focus or home
\* to null, and only when, after the frame's glide, the camera is less than
\* 0.8 from nextPos and the look target less than 0.45 from the target; it
\* settles with settledRef still down, so once per request: a mode that is
\* null stays null until a handler sets it again
C18_SettlesOnceWhenClose ==
    [][(PilotTicked /\ cameraMode' # cameraMode)
        => (/\ SettleFired /\ ~settledRef
            /\ Near(cameraPos', FrameGoal.nextPos, 80)
            /\ Near(controlsTarget', FrameGoal.target, 45))]_vars

\* the glide to the Sun has settled after a request: the camera stands at nextPos, tracking
C18_SettledOnSun ==
    /\ cameraMode = NULL /\ followSelected /\ selectedTargetKey = "Sun" /\ gestures > 0
    /\ Near(cameraPos, PlanetNextPos("Sun", earthPos, scientificMode, freezeAllMotion), 80)
    /\ Near(controlsTarget, VZero, 45)

\* the pilot tracks: no glide under way, a registered body followed
Tracking == cameraMode = NULL /\ followSelected /\ FrameGoal.hit

\* the camera is farther from the tracked body than max(radius * 10, 18)
BeyondRelease == Dist(cameraPos, FrameGoal.target) > Max2(BodyRadius(selectedTargetKey, scientificMode) * 10, 18 * FP)

\* C19 as stated: under lockPlanetFocus a tracking frame never calls
\* onReleaseFollow for a planet or the Sun; otherwise it calls it exactly
\* when the camera is beyond the release distance and releasedRef is down
C19_LockHoldsPlanetAndSun ==
    [][PilotTicked => (ReleaseFired <=> (/\ Tracking /\ ~releasedRef /\ BeyondRelease
                                         /\ ~(scientificMode /\ ~IsMoonKey(selectedTargetKey))))]_vars

\* C19: under lockPlanetFocus a tracking frame never calls onReleaseFollow
\* for a planet; for the Sun, for a moon, and for any body without the lock,
\* it calls it exactly when the camera is farther from the body than
\* max(radius * 10, 18) and releasedRef is down, which the call raises
C19_LockHoldsPlanet ==
    [][PilotTicked => (ReleaseFired <=> (/\ Tracking /\ ~releasedRef /\ BeyondRelease
                                         /\ ~(scientificMode /\ ~IsMoonKey(selectedTargetKey) /\ selectedTargetKey # "Sun")))]_vars

\* scientific mode, Earth tracked from beyond the release distance, follow kept
C19_LockedFarFromEarth == scientificMode /\ Tracking /\ selectedTargetKey = "Earth" /\ BeyondRelease /\ ~releasedRef /\ ~focusReleaseBlocked

\* ------------------------------------------------------------------------
\* Properties of the status callback
\* ------------------------------------------------------------------------
\* C20: whatever the frame rate and however fast the status changes, no more
\* than about 5 (never as many as 7) onAutoRoamStatus calls fall within one second
C20_StatusThrottled == Len(statusLog) < 7

\* ------------------------------------------------------------------------
\* Properties of the map transition
\* ------------------------------------------------------------------------
\* C21: while the auto-roam pilot is enabled no step takes the view from
\* space to the map, wherever the camera is and whatever is selected;
\* onEarthTelemetry returns at once, so that it does not clear the transition
\* lock either, which only the 850 ms timer then does.
C21_NoMapWhileRoaming ==
    [][autoRoamEnabled => /\ ~(viewMode = "space" /\ viewMode' = "map")
                          /\ (mapTransitionLock /\ ~mapTransitionLock' => mapLockTimer /\ ~mapLockTimer')]_vars

\* the pilot has chosen a destination and flown while Earth is the selected,
\* settled target of a space view whose transition lock is clear
C21_RoamingOverEarth ==
    /\ autoRoamEnabled /\ selections > 0
    /\ ~TelemetryDroppedUnlessRoaming(autoRoamEnabled, viewMode, cameraMode, selectedTargetKey, selectedMoonKey)
    /\ ~mapTransitionLock

\* ------------------------------------------------------------------------
\* Properties of the destination types
\* ------------------------------------------------------------------------
RemoteTypes == {"kuiper", "oort"}

\* the tick about to run, lastDelta' ms after the previous one, finds the travel timed out
TimesOutNow == TravelTimedOut(Rebase(autoState, lastDelta'), scientificMode)

\* C22: a tick that chooses a destination after a travel timeout, or while
\* the destination before was in the Kuiper belt or the Oort cloud, passes
\* preferInner and takes a destination that is in neither; so no two
\* destinations in a row are remote.
C22_InnerAfterRemote ==
    [][selections' = selections + 1 /\ (TimesOutNow \/ autoState.targetType \in RemoteTypes)
       => callArgs'.preferInner /\ autoState'.targetType \notin RemoteTypes /\ callResult'.type \notin RemoteTypes]_vars

\* the destination after a remote one has been chosen
C22_ChosenAfterRemote == selections = 2 /\ callArgs.previousType \in RemoteTypes /\ callArgs.preferInner /\ callResult.ok

\* the destination after a timed-out travel to an inner one has been chosen
C22_ChosenAfterTimeout == selections = 2 /\ callArgs.previousType \notin RemoteTypes /\ callArgs.preferInner /\ callResult.ok

\* ------------------------------------------------------------------------
\* Properties of the scripted input
\* ------------------------------------------------------------------------
\* a step is a frame of manual flight
ManualFrameTaken == freeRoamEnabled /\ gestures' = gestures

\* what applyScriptedInput stored is within range, and untilMs is the
\* submission time plus max(16, durationMs) for a finite durationMs
ScriptedBoxed ==
    /\ scripted.forward \in (0 - 1000)..1000 /\ scripted.right \in (0 - 1000)..1000 /\ scripted.up \in (0 - 1000)..1000
    /\ scripted.boost \in 250..8000
    /\ scripted.live /\ IsFinite(scripted.input.durationMs)
         => scripted.untilMs = Max2(Max2(16, scripted.input.durationMs.v) - scripted.age, 0 - 1)
    /\ ~scripted.live => scripted.untilMs < 0

FnvOffsetBasis == <<197, 157, 28, 129>>

\* hash ^ code for a UTF-16 code unit
FnvXor(h, code) == <<Xor(h[1], code % 256), Xor(h[2], code \div 256), h[3], h[4]>>

\* hash * 16777619 mod 2^32 byte by byte, 16777619 = 2^24 + 403
FnvTimesPrime(h) ==
    <<(h[1] * 403) % 256,
      (h[2] * 403 + (h[1] * 403) \div 256) % 256,
      (h[3] * 403 + (h[2] * 403 + (h[1] * 403) \div 256) \div 256) % 256,
      (h[4] * 403 + (h[3] * 403 + (h[2] * 403 + (h[1] * 403) \div 256) \div 256) \div 256 + h[1]) % 256>>

\* FNV-1a over the code units of the seed
RECURSIVE Fnv1a(_, _)
Fnv1a(h, chars) == IF chars = <<>> THEN h ELSE Fnv1a(FnvTimesPrime(FnvXor(h, CharCode[Head(chars)])), Tail(chars))

\* the unsigned value of four bytes mod 360 (2^8, 2^16 and 2^24 are 256, 16 and 136 mod 360)
Mod360(h) == (h[4] * 136 + h[3] * 16 + h[2] * 256 + h[1]) % 360

\* C24: every call of hashPhase returns k / 360 with k = FNV-1a(seed) mod 360,
\* the hash being the 32-bit FNV-1a from 2166136261 with the prime 16777619
\* read as unsigned; so 0 <= k < 360, and two calls with one seed agree.
C24_HashIsFnv1a ==
    \A i \in 1..Len(poseCall.hashes) :
        /\ poseCall.hashes[i] = Mod360(Fnv1a(FnvOffsetBasis, poseCall.seed))
        /\ poseCall.hashes[i] \in 0..359
        /\ poseCall.hashes[i] = poseCall.hashes[1]

\* hashPhase was called twice with the seed of the Moon's phase
C24_HashedTwice == DOMAIN poseCall = {"seed", "hashes", "calls"} /\ Len(poseCall.hashes) = 2 /\ poseCall.seed = KeyChars("Earth/Moon") \o <<":", "p", "h", "a", "s", "e">>

\* ------------------------------------------------------------------------
\* Properties of the moons' orbital planes
\* ------------------------------------------------------------------------
\* C25: every call of the moon solver, fun or scientific, with or without a
\* vector in the snapshot, returns for every moon the configured
\* orbitalInclinationDeg and ascendingNodeDeg converted to radians.
C25_PlaneAsConfigured ==
    \A i \in 1..Len(poseCall.calls), j \in 1..Len(SolverMoons) :
        ~poseCall.calls[i].moons.threw =>
            /\ poseCall.calls[i].moons.state[SolverMoons[j].key].inclinationRad = DegToRad(SolverMoons[j].orbitalInclinationDeg)
            /\ poseCall.calls[i].moons.state[SolverMoons[j].key].ascendingNodeRad = DegToRad(SolverMoons[j].ascendingNodeDeg)

\* ------------------------------------------------------------------------
\* Properties of a tick that finds no destination
\* ------------------------------------------------------------------------
\* the step is an auto-roam tick that called chooseAutoRoamTarget and got null
SelectionFailed ==
    /\ autoRoamEnabled /\ lastDelta' > 0
    /\ NeedsTarget(Rebase(autoState, lastDelta'), scientificMode)
    /\ ~callResult'.ok

\* C26: an auto-roam tick whose chooseAutoRoamTarget returns null while there
\* is no current target leaves the camera position and the pilot state as
\* they were and at most reports the 'acquiring' status; with a current
\* target the destination is kept and its travel or orbit goes on.
C26_FailedSelectionIdle ==
    [][SelectionFailed =>
        IF ~autoState.hasTarget
        THEN /\ cameraPos' = cameraPos
             /\ autoState' = Rebase(autoState, lastDelta')
             /\ autoRoamStatus' \in {autoRoamStatus, AcquiringStatus}
        ELSE /\ autoState'.hasTarget
             /\ autoState'.targetType = autoState.targetType /\ autoState'.focusKey = autoState.focusKey
             /\ focusPos' = focusPos /\ waypointPos' = waypointPos
             /\ (autoState'.mode = autoState.mode \/ autoState'.mode = "orbit")
             /\ autoRoamStatus'.mode # "acquiring"]_vars

\* ------------------------------------------------------------------------
\* Properties of the input of an inactive pilot
\* ------------------------------------------------------------------------
\* the step is a frame of the auto-roam pilot that ends with a target
TargetedTick == autoRoamEnabled /\ lastDelta' > 0 /\ autoState'.hasTarget

\* C27: a key is taken into the pressed set only while Free Explore is
\* enabled (the listeners are attached then and only then), the pressed set
\* is empty whenever Free Explore is disabled, and a frame of the auto-roam
\* pilot with a target puts the camera where the pilot's own step puts it,
\* whatever keys are pressed and whatever scripted input is active.
C27_InactiveInputDetached ==
    /\ [](~freeRoamEnabled => pressed = {})
    /\ [][(pressed' \ pressed # {} => freeRoamEnabled /\ freeRoamEnabled')
          /\ (TargetedTick => \E rnd \in DetachDraws(lastDelta') : cameraPos' = AutoRoamTick(lastDelta', rnd).camera)]_vars

\* the auto-roam pilot moved the camera towards its target during an open
\* scripted window
C27_PilotedUnderScript ==
    /\ autoRoamEnabled /\ ~freeRoamEnabled /\ lastDelta > 0 /\ autoState.hasTarget
    /\ scripted.live /\ scripted.untilMs >= 0 /\ scripted.age > 0 /\ scripted.forward = 1000
    /\ cameraPos # InitialCamera(scientificMode)

\* ------------------------------------------------------------------------
\* Properties of the orbit-turn accounting
\* ------------------------------------------------------------------------
\* the step is a frame of the auto-roam pilot
AutoTicked == autoRoamEnabled /\ lastDelta' > 0

\* the frame entered the orbit phase
ArrivedNow == AutoTicked /\ autoState'.hasTarget /\ autoState'.mode = "orbit" /\ (autoState.mode = "travel" \/ selections' # selections)

\* the frame went on with the orbit it found
OrbitedOn == AutoTicked /\ autoState.hasTarget /\ autoState.mode = "orbit" /\ autoState'.hasTarget /\ autoState'.mode = "orbit" /\ selections' = selections

\* C28: orbitTurnsProgress (in thousandths of a revolution) is 0 after the
\* frame of arrival; a later frame of the same orbit never lowers it and
\* raises it by at most half a revolution; it falls, to 0, only when a
\* destination is chosen, on an arrival, or when the pilot is disabled.
C28_TurnsAccumulate ==
    [][/\ (ArrivedNow => autoState'.orbitTurnsProgress = 0)
       /\ (OrbitedOn => /\ autoState'.orbitTurnsProgress >= autoState.orbitTurnsProgress
                        /\ autoState'.orbitTurnsProgress - autoState.orbitTurnsProgress <= 500)
       /\ (autoState'.orbitTurnsProgress < autoState.orbitTurnsProgress
             => /\ autoState'.orbitTurnsProgress = 0
                /\ (selections' > selections \/ ArrivedNow \/ ~autoRoamEnabled'))]_vars

\* an orbit has counted turns over two frames or more
C28_TurnsCounted == autoRoamEnabled /\ autoState.hasTarget /\ autoState.mode = "orbit" /\ autoState.orbitTurnsProgress >= 500 /\ lastDelta > 0

\* ------------------------------------------------------------------------
\* Properties of the map transition lock
\* ------------------------------------------------------------------------
\* the camera's height above Earth's surface
SurfaceDistance == Dist(cameraPos, earthPos) - EarthRadius

\* C29: the view goes from space to map only from a state with the lock
\* clear, no camera mode, Earth itself selected and auto-roam off, and the
\* step sets the lock; a step from map to space sets the lock too; and the
\* lock is cleared only with no camera mode pending (the glide has settled),
\* by the 850 ms timer or with the camera more than 0.9 above the surface.
C29_MapEntryGuarded ==
    [][/\ (viewMode = "space" /\ viewMode' = "map"
            => /\ ~mapTransitionLock /\ cameraMode = NULL /\ selectedTargetKey = "Earth" /\ selectedMoonKey = NULL /\ ~autoRoamEnabled
               /\ SurfaceDistance <= MAP_ENTER_SURFACE_BUFFER
               /\ mapTransitionLock')
       /\ (viewMode = "map" /\ viewMode' = "space" => mapTransitionLock')
       /\ (mapTransitionLock /\ ~mapTransitionLock'
            => /\ viewMode = "space" /\ cameraMode = NULL
               /\ ((mapLockTimer /\ ~mapLockTimer') \/ SurfaceDistance > MAP_ENTER_RELEASE_SURFACE_BUFFER))]_vars

\* back from the map: the view is space again, the lock is set and the glide
\* to Earth starts from where the camera entered the map.  Free Explore was
\* switched on in the map view; no other way into a focus glide leaves it on.
C29_BackFromMap ==
    /\ viewMode = "space" /\ mapTransitionLock /\ cameraMode = "focus" /\ selectedName = "Earth" /\ followSelected
    /\ SurfaceDistance <= MAP_ENTER_SURFACE_BUFFER /\ freeRoamEnabled

\* ------------------------------------------------------------------------
\* Properties of the ephemeris handler
\* ------------------------------------------------------------------------
\* the step answers a request
Answered == ephemeris'.requests = ephemeris.requests + 1

\* what every answer keeps to: an answer from the cache makes no upstream
\* request; the cache and its timestamp change only with a 200 answer built
\* from ten bodies or more; no target is asked more than three times; a 502
\* or a 405 leaves the cache and its timestamp as they were
CacheKept ==
    /\ (ephemeris'.response.fromCache => ephemeris'.response.status = 200 /\ ephemeris'.response.upstream = 0)
    /\ (ephemeris'.response.method = "GET" /\ ~ephemeris'.response.fromCache => ephemeris'.response.upstream >= TargetCount)
    /\ (<<ephemeris'.cachedResponse, ephemeris'.cachedAtMs>> # <<ephemeris.cachedResponse, ephemeris.cachedAtMs>>
          => /\ ephemeris'.response.status = 200 /\ ~ephemeris'.response.fromCache
             /\ ephemeris'.cachedResponse.stored /\ ephemeris'.cachedResponse.bodies >= 10
             /\ ephemeris'.cachedAtMs = ephemeris'.response.at)
    /\ ephemeris'.response.attempts <= 3
    /\ (ephemeris'.response.status \in {502, 405}
          => <<ephemeris'.cachedResponse, ephemeris'.cachedAtMs>> = <<ephemeris.cachedResponse, ephemeris.cachedAtMs>>)
    /\ (ephemeris'.response.method # "GET" <=> ephemeris'.response.status = 405)

\* C30 as stated: a GET is answered from the cache iff a snapshot was stored
\* less than 10 minutes before the request arrived; and every answer keeps
\* to CacheKept.
C30_CacheTenMinutesFromStore ==
    [][Answered =>
        /\ (ephemeris'.response.method = "GET" =>
               (ephemeris'.response.fromCache <=>
                   ephemeris.cachedResponse.stored /\ ephemeris'.response.at - ephemeris.storedAtMs < CACHE_TTL_MS))
        /\ CacheKept]_vars

\* C30: a GET is answered from the cache iff a snapshot is cached and the
\* request that built it arrived less than 10 minutes before this one
\* (cachedAtMs is the arrival time of that request, not the time the
\* snapshot was stored); and every answer keeps to CacheKept.
C30_CacheTenMinutesFromRequest ==
    [][Answered =>
        /\ (ephemeris'.response.method = "GET" =>
               (ephemeris'.response.fromCache <=>
                   ephemeris.cachedResponse.stored /\ ephemeris'.response.at - ephemeris.cachedAtMs < CACHE_TTL_MS))
        /\ CacheKept]_vars

\* a GET that arrived less than 10 minutes after the snapshot was stored, and
\* 10 minutes or more after the request that built it, was not answered from
\* the cache; its refresh failed and the snapshot is still cached
C30_RefreshedSoonAfterStore ==
    /\ ephemeris.cachedResponse.stored /\ ephemeris.response.method = "GET" /\ ephemeris.response.status = 502
    /\ ephemeris.response.at - ephemeris.storedAtMs < CACHE_TTL_MS
    /\ ephemeris.response.at - ephemeris.cachedAtMs >= CACHE_TTL_MS
    /\ ephemeris.response.attempts = 3

=========================================================================
